---- MODULE Spec2Model ----
(***************************************************************************)
(* Funding-rate arbitrage: the cross-venue decision engine, the threshold  *)
(* configuration, and the per-market position state machine as driven by   *)
(* the backtest (runSimulation) and by the live worker (oneMarketTick).    *)
(*                                                                         *)
(* Number representation.  Hourly funding values are integers in units of  *)
(* 1e-9 (of a percent per hour, or of a fraction where the backtest has    *)
(* divided by 100).  APR values and thresholds are integers in units of    *)
(* 1e-5 percent per year.  Timestamps are milliseconds.                    *)
(***************************************************************************)
EXTENDS Integers, Sequences, FiniteSets, TLC

VARIABLES
    args,             \* crossDecision arguments under test
    retLive,          \* result of the live worker's crossDecision, or NoDec
    retBt,            \* result of the backtest's crossDecision, or NoDec
    enterCfg,         \* configured ENTER_APR
    exitCfg,          \* EXIT_APR as loaded: [state, value]
    now,              \* timestamp of the current step / tick (ms)
    snap,             \* funding snapshots fed to the current step
    pc,               \* control position of the modelled program
    stepNo,           \* number of snapshots fed so far
    singlePositions,  \* backtest: market -> SinglePos
    crossPositions,   \* backtest: market -> CrossPos
    tradeEvents,      \* backtest: trade log
    positions,        \* live: market -> PositionState
    crossPos,         \* live: market -> CrossPos
    liveEvents,       \* live: executions performed (the "->" log lines)
    PERP_PERP,        \* cross-venue mode enabled (FRA_PERP_PERP)
    hist,             \* the snapshots fed so far, oldest first
    cumulativePnl,    \* backtest: running profit/loss total
    pnlSeries,        \* backtest: profit/loss time series
    align,            \* backtest: the alignment walk [drift, dydx, i, j, out]
    historyData,      \* backtest: market -> [drift, dydx] series
    runs,             \* backtest: what each completed runSimulation returned
    svc,              \* plugin service: the FundingArbService loop
    boot              \* worker startup: environment read and constants loaded

vars == <<args, retLive, retBt, enterCfg, exitCfg, now, snap, pc, stepNo,
          singlePositions, crossPositions, tradeEvents, positions, crossPos,
          liveEvents, PERP_PERP, hist, cumulativePnl, pnlSeries, align,
          historyData, runs, svc, boot>>

----------------------------------------------------------------------------
(* Arithmetic helpers                                                      *)

Abs(x) == IF x < 0 THEN 0 - x ELSE x

Max(a, b) == IF a >= b THEN a ELSE b

\* Math.round: nearest integer, halves towards +infinity, of num/den (den > 0)
MathRound(num, den) == (2 * num + den) \div (2 * den)

----------------------------------------------------------------------------
(* Decision engine                                                         *)

\* 1e-6 in units of 1e-9
EPS == 1000

\* Math.sign: a sign function without the epsilon band
sgnNoEpsilon(x) == IF x > 0 THEN 1 ELSE IF x < 0 THEN -1 ELSE 0

sgn(x) == IF Abs(x) <= EPS THEN 0 ELSE IF x > 0 THEN 1 ELSE -1

\* the receive convention turned around: long when longs pay
decideReceivePerpSideInverted(hourlyPct) ==
    IF hourlyPct >= 0 THEN "LONG" ELSE "SHORT"

decideReceivePerpSide(hourlyPct) == IF hourlyPct >= 0 THEN "SHORT" ELSE "LONG"

\* a hedge that buys spot whatever the perp side
spotSideAlwaysBuy(perpSide) == "BUY"

\* the hedge turned around: sell spot against a short perp
spotSideForPerpInverted(perpSide) == IF perpSide = "SHORT" THEN "SELL" ELSE "BUY"

spotSideForPerp(perpSide) == IF perpSide = "SHORT" THEN "BUY" ELSE "SELL"

\* the live worker's crossDecision
crossDecision(driftHourly, driftApr, bHourly, bApr) ==
    LET sA == sgn(driftHourly)
        sB == sgn(bHourly)
        absA == Abs(driftApr)
        absB == Abs(bApr)
        aBigger == absA >= absB
    IN  IF sA # 0 /\ sB # 0 /\ sA # sB
        THEN [netApr |-> absA + absB,
              driftSide |-> decideReceivePerpSide(driftHourly),
              venueBSide |-> decideReceivePerpSide(bHourly),
              reason |-> "opposite"]
        ELSE IF (sA = 0) # (sB = 0)
        THEN [netApr |-> Max(absA, absB),
              driftSide |-> decideReceivePerpSide(driftHourly),
              venueBSide |-> decideReceivePerpSide(bHourly),
              reason |-> "one-zero"]
        ELSE [netApr |-> Abs(absA - absB),
              driftSide |-> IF sA > 0
                            THEN (IF aBigger THEN "SHORT" ELSE "LONG")
                            ELSE (IF aBigger THEN "LONG" ELSE "SHORT"),
              venueBSide |-> IF sA > 0
                             THEN (IF aBigger THEN "LONG" ELSE "SHORT")
                             ELSE (IF aBigger THEN "SHORT" ELSE "LONG"),
              reason |-> "same"]

\* the backtest's crossDecision
crossDecisionBt(driftHourly, driftApr, venueBHourly, venueBApr) ==
    LET sA == sgn(driftHourly)
        sB == sgn(venueBHourly)
        absA == Abs(driftApr)
        absB == Abs(venueBApr)
        driftPays == absA >= absB
    IN  IF sA # 0 /\ sB # 0 /\ sA # sB
        THEN [netApr |-> absA + absB,
              driftSide |-> decideReceivePerpSide(driftHourly),
              venueBSide |-> decideReceivePerpSide(venueBHourly),
              reason |-> "opposite"]
        ELSE IF (sA = 0) # (sB = 0)
        THEN [netApr |-> Max(absA, absB),
              driftSide |-> decideReceivePerpSide(driftHourly),
              venueBSide |-> decideReceivePerpSide(venueBHourly),
              reason |-> "one-zero"]
        ELSE [netApr |-> Abs(absA - absB),
              driftSide |-> IF driftPays
                            THEN (IF driftHourly >= 0 THEN "SHORT" ELSE "LONG")
                            ELSE (IF driftHourly >= 0 THEN "LONG" ELSE "SHORT"),
              venueBSide |-> IF driftPays
                             THEN (IF driftHourly >= 0 THEN "LONG" ELSE "SHORT")
                             ELSE (IF driftHourly >= 0 THEN "SHORT" ELSE "LONG"),
              reason |-> "same"]

----------------------------------------------------------------------------
(* Threshold configuration                                                 *)

\* APR units per percent
AprPerPct == 100 * 1000

\* default ENTER_APR: 10 (%)
ENTER_APR == 10 * AprPerPct

\* Math.max(0, Math.round(enter * 0.6 * 100) / 100), enter in APR units
DefaultExitApr(enter) ==
    Max(0, MathRound(60 * enter, AprPerPct) * (AprPerPct \div 100))

EXIT_APR == DefaultExitApr(ENTER_APR)

\* default COOLDOWN_SEC
COOLDOWN_SEC == 300

----------------------------------------------------------------------------
(* Values that the variables of the other programs hold while one program  *)
(* is being explored.                                                      *)

Markets == {"SOL-PERP"}

NoDec == [netApr |-> 0, driftSide |-> "SHORT", venueBSide |-> "SHORT",
          reason |-> "none"]

NoArgs == [hA |-> 0, aA |-> 0, hB |-> 0, aB |-> 0]

NoExit == [state |-> "unset", value |-> 0]

\* Map.get(market) === undefined
NoSingle == [exists |-> FALSE, open |-> FALSE, perpSide |-> "SHORT",
             spotSide |-> "BUY", openedAt |-> 0, lastActionAt |-> 0,
             lastApr |-> 0]

NoCross == [exists |-> FALSE, open |-> FALSE, driftSide |-> "SHORT",
            venueBSide |-> "SHORT", openedAt |-> 0, lastActionAt |-> 0,
            lastNetApr |-> 0]

NoSnap == [ts |-> 0, hourlyPct |-> 0, aprPct |-> 0, hasB |-> FALSE,
           bHourlyPct |-> 0, bAprPct |-> 0]

DecIdle == /\ args = NoArgs /\ retLive = NoDec /\ retBt = NoDec

CfgIdle == /\ enterCfg = ENTER_APR /\ exitCfg = NoExit

SmIdle ==
    /\ now = 0 /\ snap = NoSnap /\ stepNo = 0
    /\ singlePositions = [m \in Markets |-> NoSingle]
    /\ crossPositions = [m \in Markets |-> NoCross]
    /\ tradeEvents = << >>
    /\ positions = [m \in Markets |-> NoSingle]
    /\ crossPos = [m \in Markets |-> NoCross]
    /\ liveEvents = << >>
    /\ PERP_PERP = TRUE
    /\ hist = << >>
    /\ cumulativePnl = 0
    /\ pnlSeries = << >>

NoAlign == [drift |-> << >>, dydx |-> << >>, i |-> 0, j |-> 0, out |-> << >>]

AlignIdle == align = NoAlign

RunsIdle == historyData = << >> /\ runs = << >>

\* this.timer when no handle is held (undefined)
NoTimer == 0

NoSvc == [variant |-> "none", running |-> FALSE, inFlight |-> FALSE,
          timer |-> NoTimer, intervals |-> {}, made |-> 0, ticks |-> << >>,
          log |-> << >>, opens |-> << >>, begins |-> 0, stops |-> 0,
          fires |-> 0, skipped |-> 0, lastCall |-> "none"]

SvcIdle == svc = NoSvc

NoBoot == [program |-> "none", env |-> << >>, state |-> "idle",
           loaded |-> << >>, evaluated |-> FALSE]

BootIdle == boot = NoBoot

decVars == <<args, retLive, retBt>>

runVars == <<align, historyData, runs>>

svcVars == <<svc, boot>>

cfgVars == <<enterCfg, exitCfg>>

smVars == <<now, snap, stepNo, singlePositions, crossPositions, tradeEvents,
            positions, crossPos, liveEvents, PERP_PERP, hist, cumulativePnl,
            pnlSeries>>

----------------------------------------------------------------------------
(* SpecDec: the decision engine applied to bounded arguments               *)

HourlyArgs == {0 - (EPS + 1), 0 - EPS, -1, 0, 1, EPS, EPS + 1}

AprArgs == {-30, -10, 0, 10, 30}

InitDec ==
    /\ args \in [hA : HourlyArgs, aA : AprArgs, hB : HourlyArgs, aB : AprArgs]
    /\ retLive = NoDec
    /\ retBt = NoDec
    /\ pc = "dec"
    /\ CfgIdle
    /\ SmIdle
    /\ AlignIdle
    /\ RunsIdle
    /\ SvcIdle
    /\ BootIdle

CallCrossDecision ==
    /\ pc = "dec"
    /\ retLive = NoDec
    /\ retLive' = crossDecision(args.hA, args.aA, args.hB, args.aB)
    /\ UNCHANGED <<args, retBt, pc, cfgVars, smVars, runVars, svcVars>>

CallCrossDecisionBt ==
    /\ pc = "dec"
    /\ retBt = NoDec
    /\ retBt' = crossDecisionBt(args.hA, args.aA, args.hB, args.aB)
    /\ UNCHANGED <<args, retLive, pc, cfgVars, smVars, runVars, svcVars>>

NextDec == CallCrossDecision \/ CallCrossDecisionBt

SpecDec == InitDec /\ [][NextDec]_vars

----------------------------------------------------------------------------
(* SpecCfg: loading ENTER_APR / EXIT_APR from the environment              *)

MaxEnterK == 60

\* ENTER_APR values: multiples of 0.005 % around zero, and the default
EnterVals == {k * 500 : k \in (0 - MaxEnterK)..MaxEnterK} \cup {ENTER_APR}

\* explicit FRA_EXIT_APR overrides
ExitOverrides == {0, 6 * AprPerPct, 12 * AprPerPct}

InitCfg ==
    /\ enterCfg \in EnterVals
    /\ exitCfg = NoExit
    /\ pc = "cfg"
    /\ DecIdle
    /\ SmIdle
    /\ AlignIdle
    /\ RunsIdle
    /\ SvcIdle
    /\ BootIdle

\* FRA_EXIT_APR unset (or empty): the default branch
LoadExitDefault ==
    /\ pc = "cfg"
    /\ exitCfg' = [state |-> "default", value |-> DefaultExitApr(enterCfg)]
    /\ pc' = "cfg-loaded"
    /\ UNCHANGED <<enterCfg, decVars, smVars, runVars, svcVars>>

\* FRA_EXIT_APR set: taken as given
LoadExitOverride ==
    /\ pc = "cfg"
    /\ \E x \in ExitOverrides : exitCfg' = [state |-> "override", value |-> x]
    /\ pc' = "cfg-loaded"
    /\ UNCHANGED <<enterCfg, decVars, smVars, runVars, svcVars>>

NextCfg == LoadExitDefault \/ LoadExitOverride

SpecCfg == InitCfg /\ [][NextCfg]_vars

----------------------------------------------------------------------------
(* SpecBoot: the module-level constants of the two workers as they are     *)
(* read from the environment.  An environment value is unset or a string;  *)
(* strings are sequences over a small alphabet: a digit, the percent sign  *)
(* and a letter.  Numbers read from strings are [finite, v]; enter and     *)
(* exit are kept in APR units, cooldown in seconds, notional in USDC.      *)

Digits == {"5"}

EnvChars == Digits \cup {"%", "x"}

MaxEnvLen == 2

EnvStrings == UNION {[1..n -> EnvChars] : n \in 0..MaxEnvLen}

Unset == [set |-> FALSE, text |-> << >>]

EnvVal(text) == [set |-> TRUE, text |-> text]

NaN == [finite |-> FALSE, v |-> 0]

Finite(v) == [finite |-> TRUE, v |-> v]

DigitVal(c) == CASE c = "5" -> 5

RECURSIVE DecimalValue(_)
DecimalValue(text) ==
    IF text = << >> THEN 0
    ELSE 10 * DecimalValue(SubSeq(text, 1, Len(text) - 1))
             + DigitVal(text[Len(text)])

\* Number(s) for a string without whitespace: the empty string is 0, a
\* string of digits its value, anything else NaN
NumberOf(text) ==
    IF \A i \in DOMAIN text : text[i] \in Digits
    THEN Finite(DecimalValue(text))
    ELSE NaN

\* s.replace('%', ''): the first percent sign removed
RECURSIVE StripPct(_)
StripPct(text) ==
    IF text = << >> THEN << >>
    ELSE IF Head(text) = "%" THEN Tail(text)
    ELSE << Head(text) >> \o StripPct(Tail(text))

\* normPctEnv(s): the number, or threw when it is not finite
normPctEnv(text) ==
    LET n == NumberOf(StripPct(text))
    IN  [threw |-> ~n.finite, n |-> n]

\* a percent value in APR units
InApr(n) == IF n.finite THEN Finite(n.v * AprPerPct) ELSE NaN

\* Math.max(0, Math.round(ENTER_APR * 0.6 * 100) / 100) on a possibly
\* non-finite ENTER_APR
DefaultExitOf(enter) ==
    IF enter.finite THEN Finite(DefaultExitApr(enter.v)) ELSE NaN

\* Number(process.env.X ?? dflt)
NumberOr(e, dflt) == IF e.set THEN NumberOf(e.text) ELSE Finite(dflt)

\* process.env.FRA_EXIT_APR ? ... : ...  (an empty string is falsy)
Truthy(e) == e.set /\ e.text # << >>

InitBoot ==
    /\ pc = "boot"
    /\ \E program \in {"live", "backtest"},
          enter \in {Unset} \cup {EnvVal(t) : t \in EnvStrings},
          exit \in {Unset} \cup {EnvVal(t) : t \in EnvStrings},
          cooldown \in {Unset, EnvVal(<< >>), EnvVal(<< "5" >>), EnvVal(<< "x" >>)},
          notional \in {Unset, EnvVal(<< "5" >>), EnvVal(<< "5", "x" >>)} :
         boot = [program |-> program,
                 env |-> [enter |-> enter, exit |-> exit,
                          cooldown |-> cooldown, notional |-> notional],
                 state |-> "start", loaded |-> << >>, evaluated |-> FALSE]
    /\ SvcIdle
    /\ DecIdle
    /\ CfgIdle
    /\ SmIdle
    /\ AlignIdle
    /\ RunsIdle

\* the live worker's constants: ENTER_APR and EXIT_APR through normPctEnv,
\* COOLDOWN_SEC and QUOTE_NOTIONAL through Number
LoadWorkerConstants ==
    /\ pc = "boot"
    /\ boot.program = "live"
    /\ boot.state = "start"
    /\ LET e == boot.env
           enter == IF e.enter.set THEN normPctEnv(e.enter.text)
                    ELSE [threw |-> FALSE, n |-> Finite(10)]
           exit == IF Truthy(e.exit)
                   THEN [threw |-> normPctEnv(e.exit.text).threw,
                         n |-> InApr(normPctEnv(e.exit.text).n)]
                   ELSE [threw |-> FALSE, n |-> DefaultExitOf(InApr(enter.n))]
       IN  boot' = IF enter.threw \/ exit.threw
                   THEN [boot EXCEPT !.state = "failed"]
                   ELSE [boot EXCEPT
                            !.state = "loaded",
                            !.loaded = [enter |-> InApr(enter.n),
                                        exit |-> exit.n,
                                        cooldown |-> NumberOr(e.cooldown, COOLDOWN_SEC),
                                        notional |-> NumberOr(e.notional, 500)]]
    /\ UNCHANGED <<pc, svc, decVars, cfgVars, smVars, runVars>>

\* the backtest's constants: all four through Number
LoadBacktestConstants ==
    /\ pc = "boot"
    /\ boot.program = "backtest"
    /\ boot.state = "start"
    /\ LET e == boot.env
           enter == InApr(NumberOr(e.enter, 10))
           exit == IF Truthy(e.exit) THEN InApr(NumberOf(e.exit.text))
                   ELSE DefaultExitOf(enter)
       IN  boot' = [boot EXCEPT
                       !.state = "loaded",
                       !.loaded = [enter |-> enter,
                                   exit |-> exit,
                                   cooldown |-> NumberOr(e.cooldown, COOLDOWN_SEC),
                                   notional |-> NumberOr(e.notional, 500)]]
    /\ UNCHANGED <<pc, svc, decVars, cfgVars, smVars, runVars>>

\* main() reaches its first oneMarketTick / runSimulation step
FirstEvaluation ==
    /\ pc = "boot"
    /\ boot.state = "loaded"
    /\ ~boot.evaluated
    /\ boot' = [boot EXCEPT !.evaluated = TRUE]
    /\ UNCHANGED <<pc, svc, decVars, cfgVars, smVars, runVars>>

NextBoot == LoadWorkerConstants \/ LoadBacktestConstants \/ FirstEvaluation

SpecBoot == InitBoot /\ [][NextBoot]_vars

----------------------------------------------------------------------------
(* Position state machine: shared pieces                                   *)

\* no cooldown at all
inCooldownDisabled(lastActionAt, cooldownSec, t) == FALSE

\* the cooldown compared in seconds against a millisecond clock
inCooldownSeconds(lastActionAt, cooldownSec, t) == t - lastActionAt < cooldownSec

\* the cooldown taken as minutes
inCooldownMinutes(lastActionAt, cooldownSec, t) ==
    t - lastActionAt < cooldownSec * 60 * 1000

\* now - lastActionAt < cooldownSec * 1000, the clock read as t
inCooldown(lastActionAt, cooldownSec, t) == t - lastActionAt < cooldownSec * 1000

\* a close rule with a single boundary: no band between exit and enter
shouldCloseBelowEnter(apr, flipNeeded) ==
    apr < ENTER_APR \/ (flipNeeded /\ apr < ENTER_APR)

\* a close rule that looks at the exit threshold only
shouldCloseExitOnly(apr, flipNeeded) == apr <= EXIT_APR

\* shouldClose of an open position: apr is |aprPct| or netApr
shouldClose(apr, flipNeeded) ==
    apr <= EXIT_APR \/ (flipNeeded /\ apr < ENTER_APR)

\* a flip rule that does not ask whether the sides changed
shouldFlipUnsignalled(apr, flipNeeded) == apr >= ENTER_APR

\* shouldFlip of an open position
shouldFlip(apr, flipNeeded) == flipNeeded /\ apr >= ENTER_APR

\* an entry that does not mark the position open
SinglePosNotOpen(perpSide, spotSide, openedAt, lastActionAt, lastApr) ==
    [exists |-> TRUE, open |-> FALSE, perpSide |-> perpSide,
     spotSide |-> spotSide, openedAt |-> openedAt,
     lastActionAt |-> lastActionAt, lastApr |-> lastApr]

SinglePos(perpSide, spotSide, openedAt, lastActionAt, lastApr) ==
    [exists |-> TRUE, open |-> TRUE, perpSide |-> perpSide,
     spotSide |-> spotSide, openedAt |-> openedAt,
     lastActionAt |-> lastActionAt, lastApr |-> lastApr]

CrossPosRec(driftSide, venueBSide, openedAt, lastActionAt, lastNetApr) ==
    [exists |-> TRUE, open |-> TRUE, driftSide |-> driftSide,
     venueBSide |-> venueBSide, openedAt |-> openedAt,
     lastActionAt |-> lastActionAt, lastNetApr |-> lastNetApr]

----------------------------------------------------------------------------
(* Backtest: one iteration of runSimulation's loop over the primary series *)

\* secondary leg as aligned for this step: 0 when no snapshot is in tolerance
dydxHourlyOf(s) == IF s.hasB THEN s.bHourlyPct ELSE 0

dydxAprOf(s) == IF s.hasB THEN s.bAprPct ELSE 0

\* crossDecision(driftHourly/100, driftApr, dydxHourly/100, dydxApr)
BtDecision(s) ==
    crossDecisionBt(s.hourlyPct \div 100, s.aprPct,
                    dydxHourlyOf(s) \div 100, dydxAprOf(s))

\* Profit/loss values are integers in units of QUOTE_NOTIONAL / 2.4e8: with
\* hourly rates in multiples of HourlyStep and times in multiples of a
\* minute, both formulas below are exact in that unit.
HourlyStep == 50 * 1000

MinuteMs == 60 * 1000

\* avgApr/100 * (hoursHeld/8760) * QUOTE_NOTIONAL, avgApr = (lastApr + apr)/2,
\* hoursHeld = heldMs / 3600_000
pnlEarned(lastApr, apr, heldMs) ==
    ((lastApr + apr) \div ((HourlyStep * 219) \div 250)) * (heldMs \div MinuteMs)

\* an accrual that credits every leg, whichever side it holds
legPnlUnsigned(hourly, side) ==
    (hourly \div HourlyStep) * (2 * ((3600 * 1000) \div MinuteMs))

\* (hourly/100) * QUOTE_NOTIONAL * sign, sign = side === 'SHORT' ? 1 : -1
legPnl(hourly, side) ==
    (hourly \div HourlyStep) * (2 * ((3600 * 1000) \div MinuteMs))
        * (IF side = "SHORT" THEN 1 ELSE -1)

CrossEvent(market, t, s, action, driftSide, venueBSide, netApr, pnl) ==
    [ts |-> t, market |-> market, type |-> "CROSS", action |-> action,
     driftSide |-> driftSide, venueBSide |-> venueBSide, spotSide |-> "NA",
     driftApr |-> s.aprPct, venueBApr |-> dydxAprOf(s), netApr |-> netApr,
     pnl |-> pnl]

SingleEvent(market, t, s, action, perpSide, spotSide, pnl) ==
    [ts |-> t, market |-> market, type |-> "SINGLE", action |-> action,
     driftSide |-> perpSide, venueBSide |-> "NA", spotSide |-> spotSide,
     driftApr |-> s.aprPct, venueBApr |-> 0, netApr |-> 0, pnl |-> pnl]

\* cross-venue block: the cross position after it and the events it pushes
BtCrossBlock(market, t, s, cp) ==
    LET coolingCross == cp.exists /\ inCooldown(cp.lastActionAt, COOLDOWN_SEC, t)
        dec == BtDecision(s)
        flipNeeded == cp.driftSide # dec.driftSide \/ cp.venueBSide # dec.venueBSide
        closePnl == pnlEarned(cp.lastNetApr, dec.netApr, t - cp.openedAt)
        flipPnl == pnlEarned(cp.lastNetApr, dec.netApr, t - cp.lastActionAt)
    IN  IF ~cp.exists \/ ~cp.open
        THEN IF dec.netApr >= ENTER_APR /\ ~coolingCross
             THEN [pos |-> CrossPosRec(dec.driftSide, dec.venueBSide, t, t, dec.netApr),
                   events |-> << CrossEvent(market, t, s, "ENTER", dec.driftSide,
                                            dec.venueBSide, dec.netApr, 0) >>,
                   realized |-> 0]
             ELSE [pos |-> cp, events |-> << >>, realized |-> 0]
        ELSE IF shouldClose(dec.netApr, flipNeeded) /\ ~coolingCross
             THEN [pos |-> [cp EXCEPT !.open = FALSE, !.lastActionAt = t,
                                      !.lastNetApr = dec.netApr],
                   events |-> << CrossEvent(market, t, s, "EXIT", cp.driftSide,
                                            cp.venueBSide, dec.netApr, closePnl) >>,
                   realized |-> closePnl]
             ELSE IF shouldFlip(dec.netApr, flipNeeded) /\ ~coolingCross
             THEN [pos |-> CrossPosRec(dec.driftSide, dec.venueBSide, t, t, dec.netApr),
                   events |-> << CrossEvent(market, t, s, "EXIT", cp.driftSide,
                                            cp.venueBSide, dec.netApr, flipPnl),
                                 CrossEvent(market, t, s, "ENTER", dec.driftSide,
                                            dec.venueBSide, dec.netApr, 0) >>,
                   realized |-> flipPnl]
             ELSE [pos |-> cp, events |-> << >>, realized |-> 0]

\* single-venue block, run when the cross position is not open after the
\* cross block; pos is the single position read at the start of the step
BtSingleBlock(market, t, s, pos) ==
    LET coolingSV == pos.exists /\ inCooldown(pos.lastActionAt, COOLDOWN_SEC, t)
        absApr == Abs(s.aprPct)
        desiredPerpSide == decideReceivePerpSide(s.hourlyPct \div 100)
        desiredSpotSide == spotSideForPerp(desiredPerpSide)
        signalFlipped == desiredPerpSide # pos.perpSide
        closePnl == pnlEarned(Abs(pos.lastApr), absApr, t - pos.openedAt)
        flipPnl == pnlEarned(Abs(pos.lastApr), absApr, t - pos.lastActionAt)
    IN  IF ~pos.exists \/ ~pos.open
        THEN IF absApr >= ENTER_APR /\ ~coolingSV
             THEN [pos |-> SinglePos(desiredPerpSide, desiredSpotSide, t, t, s.aprPct),
                   events |-> << SingleEvent(market, t, s, "ENTER", desiredPerpSide,
                                             desiredSpotSide, 0) >>,
                   realized |-> 0]
             ELSE [pos |-> pos, events |-> << >>, realized |-> 0]
        ELSE IF shouldClose(absApr, signalFlipped) /\ ~coolingSV
             THEN [pos |-> [pos EXCEPT !.open = FALSE, !.lastActionAt = t,
                                       !.lastApr = s.aprPct],
                   events |-> << SingleEvent(market, t, s, "EXIT", pos.perpSide,
                                             pos.spotSide, closePnl) >>,
                   realized |-> closePnl]
             ELSE IF shouldFlip(absApr, signalFlipped) /\ ~coolingSV
             THEN [pos |-> SinglePos(desiredPerpSide, desiredSpotSide, t, t, s.aprPct),
                   events |-> << SingleEvent(market, t, s, "EXIT", pos.perpSide,
                                             pos.spotSide, flipPnl),
                                 SingleEvent(market, t, s, "ENTER", desiredPerpSide,
                                             desiredSpotSide, 0) >>,
                   realized |-> flipPnl]
             \* held (also when the action is gated by cooldown): the stored
             \* object itself gets pos.lastApr = driftApr
             ELSE [pos |-> [pos EXCEPT !.lastApr = s.aprPct], events |-> << >>,
                   realized |-> 0]

\* the continuous accrual of one step, on the positions after its transitions
hourlyPnl(s, currentPos, currentCross) ==
    (IF currentPos.exists /\ currentPos.open
     THEN legPnl(s.hourlyPct, currentPos.perpSide) ELSE 0)
    + (IF currentCross.exists /\ currentCross.open
       THEN legPnl(s.hourlyPct, currentCross.driftSide)
            + legPnl(dydxHourlyOf(s), currentCross.venueBSide)
       ELSE 0)

\* the body of the loop for snapshot s of market: the positions after it,
\* the events it pushes and the running total it records
BtStep(market, s, pos, cp, cumulative) ==
    LET t == s.ts
        cross == IF PERP_PERP
                 THEN BtCrossBlock(market, t, s, cp)
                 ELSE [pos |-> cp, events |-> << >>, realized |-> 0]
        crossOpen == cross.pos.exists /\ cross.pos.open
        single == IF ~crossOpen
                  THEN BtSingleBlock(market, t, s, pos)
                  ELSE [pos |-> pos, events |-> << >>, realized |-> 0]
    IN  [single |-> single.pos,
         cross |-> cross.pos,
         events |-> cross.events \o single.events,
         total |-> cumulative + cross.realized + single.realized
                       + hourlyPnl(s, single.pos, cross.pos)]

BacktestStepOf(market) ==
    LET r == BtStep(market, snap, singlePositions[market],
                    crossPositions[market], cumulativePnl)
    IN  /\ crossPositions' = [crossPositions EXCEPT ![market] = r.cross]
        /\ singlePositions' = [singlePositions EXCEPT ![market] = r.single]
        /\ tradeEvents' = tradeEvents \o r.events
        /\ cumulativePnl' = r.total
        /\ pnlSeries' = Append(pnlSeries, [ts |-> snap.ts, pnl |-> r.total])

BacktestStep ==
    /\ pc = "backtest"
    /\ \E market \in Markets : BacktestStepOf(market)
    /\ pc' = "live"
    /\ UNCHANGED <<now, snap, stepNo, positions, crossPos, liveEvents,
                   PERP_PERP, hist, decVars, cfgVars, runVars, svcVars>>

----------------------------------------------------------------------------
(* Live worker: oneMarketTick                                              *)

LiveEvent(market, t, type, action, sideA, sideB) ==
    [ts |-> t, market |-> market, type |-> type, action |-> action,
     sideA |-> sideA, sideB |-> sideB]

\* the "if (venueB)" block: the cross position after it, the executions it
\* performs, and whether the tick returned inside it
LiveCrossBlock(market, t, s, cp) ==
    LET dec == crossDecision(s.hourlyPct, s.aprPct, s.bHourlyPct, s.bAprPct)
        cooling == IF cp.exists
                   THEN inCooldown(cp.lastActionAt, COOLDOWN_SEC, t)
                   ELSE FALSE
        flip == cp.driftSide # dec.driftSide \/ cp.venueBSide # dec.venueBSide
    IN  IF ~cp.exists \/ ~cp.open
        THEN IF dec.netApr >= ENTER_APR /\ ~cooling
             THEN [pos |-> CrossPosRec(dec.driftSide, dec.venueBSide, t, t, dec.netApr),
                   events |-> << LiveEvent(market, t, "CROSS", "ENTER",
                                           dec.driftSide, dec.venueBSide) >>,
                   returned |-> TRUE]
             ELSE [pos |-> cp, events |-> << >>, returned |-> FALSE]
        ELSE IF shouldClose(dec.netApr, flip)
             THEN IF cooling
                  THEN [pos |-> cp, events |-> << >>, returned |-> FALSE]
                  ELSE [pos |-> [cp EXCEPT !.open = FALSE, !.lastActionAt = t,
                                           !.lastNetApr = dec.netApr],
                        events |-> << LiveEvent(market, t, "CROSS", "EXIT",
                                                cp.driftSide, cp.venueBSide) >>,
                        returned |-> FALSE]
             ELSE IF shouldFlip(dec.netApr, flip)
             THEN IF cooling
                  THEN [pos |-> cp, events |-> << >>, returned |-> TRUE]
                  ELSE [pos |-> CrossPosRec(dec.driftSide, dec.venueBSide,
                                            cp.openedAt, t, dec.netApr),
                        events |-> << LiveEvent(market, t, "CROSS", "FLIP",
                                                dec.driftSide, dec.venueBSide) >>,
                        returned |-> TRUE]
             ELSE [pos |-> cp, events |-> << >>, returned |-> TRUE]

\* the single-venue part of the tick
LiveSingleBlock(market, t, s, pos) ==
    LET absApr == Abs(s.aprPct)
        desiredPerp == decideReceivePerpSide(s.hourlyPct)
        desiredSpot == spotSideForPerp(desiredPerp)
        coolingSV == IF pos.exists
                     THEN inCooldown(pos.lastActionAt, COOLDOWN_SEC, t)
                     ELSE FALSE
        signalFlipped == desiredPerp # pos.perpSide
    IN  IF ~pos.exists \/ ~pos.open
        THEN IF absApr >= ENTER_APR /\ ~coolingSV
             THEN [pos |-> SinglePos(desiredPerp, desiredSpot, t, t, s.aprPct),
                   events |-> << LiveEvent(market, t, "SINGLE", "ENTER",
                                           desiredPerp, desiredSpot) >>]
             ELSE [pos |-> pos, events |-> << >>]
        ELSE IF shouldClose(absApr, signalFlipped)
             THEN IF coolingSV
                  THEN [pos |-> pos, events |-> << >>]
                  ELSE [pos |-> [pos EXCEPT !.open = FALSE, !.lastActionAt = t,
                                            !.lastApr = s.aprPct],
                        events |-> << LiveEvent(market, t, "SINGLE", "EXIT",
                                                pos.perpSide, pos.spotSide) >>]
             ELSE IF shouldFlip(absApr, signalFlipped)
             THEN IF coolingSV
                  THEN [pos |-> pos, events |-> << >>]
                  ELSE [pos |-> SinglePos(desiredPerp, desiredSpot, pos.openedAt,
                                          t, s.aprPct),
                        events |-> << LiveEvent(market, t, "SINGLE", "FLIP",
                                                desiredPerp, desiredSpot) >>]
             ELSE [pos |-> pos, events |-> << >>]

oneMarketTick(market) ==
    LET t == snap.ts
        cross == IF snap.hasB
                 THEN LiveCrossBlock(market, t, snap, crossPos[market])
                 ELSE [pos |-> crossPos[market], events |-> << >>,
                       returned |-> FALSE]
        single == IF ~cross.returned
                  THEN LiveSingleBlock(market, t, snap, positions[market])
                  ELSE [pos |-> positions[market], events |-> << >>]
    IN  /\ crossPos' = [crossPos EXCEPT ![market] = cross.pos]
        /\ positions' = [positions EXCEPT ![market] = single.pos]
        /\ liveEvents' = liveEvents \o cross.events \o single.events

LiveTick ==
    /\ pc = "live"
    /\ \E market \in Markets : oneMarketTick(market)
    /\ pc' = "feed"
    /\ UNCHANGED <<now, snap, stepNo, singlePositions, crossPositions,
                   tradeEvents, PERP_PERP, hist, cumulativePnl, pnlSeries,
                   decVars, cfgVars, runVars, svcVars>>

----------------------------------------------------------------------------
(* SpecAlign: runSimulation's walk of the primary series with its pointer  *)
(* into the secondary series                                               *)

\* the alignment tolerance of runSimulation, ms
ALIGN_TOLERANCE_MS == 1800000

\* the pointer bounded by the length instead of the last index
RECURSIVE AdvanceJToLength(_, _, _)
AdvanceJToLength(dydxData, j, ts) ==
    IF j <= Len(dydxData) /\ dydxData[j].ts < ts
    THEN AdvanceJToLength(dydxData, j + 1, ts)
    ELSE j

\* while (j < dydxData.length - 1 && dydxData[j].ts < ts) j++, with j
\* counted from 1
RECURSIVE AdvanceJ(_, _, _)
AdvanceJ(dydxData, j, ts) ==
    IF j < Len(dydxData) /\ dydxData[j].ts < ts
    THEN AdvanceJ(dydxData, j + 1, ts)
    ELSE j

\* dydxData[j] && Math.abs(dydxData[j].ts - ts) < 1800_000
InTolerance(dydxData, j, ts) ==
    j <= Len(dydxData) /\ Abs(dydxData[j].ts - ts) < ALIGN_TOLERANCE_MS

TsBefore(a, b) == a.ts < b.ts

\* ten minutes, the grid of the explored timestamps
TickMs == 600 * 1000

MaxTick == 5

MaxDrift == 2

MaxDydx == 3

TickSnaps == {[ts |-> k * TickMs] : k \in 0..MaxTick}

SeriesUpTo(n) == UNION {[1..k -> TickSnaps] : k \in 0..n}

InitAlign ==
    /\ pc = "sort"
    /\ \E drift \in SeriesUpTo(MaxDrift) \ {<< >>}, dydx \in SeriesUpTo(MaxDydx) :
          align = [drift |-> drift, dydx |-> dydx, i |-> 1, j |-> 1, out |-> << >>]
    /\ DecIdle
    /\ CfgIdle
    /\ SmIdle
    /\ RunsIdle
    /\ SvcIdle
    /\ BootIdle

\* driftData.sort(...); dydxData.sort(...); let j = 0
SortSeries ==
    /\ pc = "sort"
    /\ align' = [align EXCEPT !.drift = SortSeq(align.drift, TsBefore),
                              !.dydx = SortSeq(align.dydx, TsBefore)]
    /\ pc' = "walk"
    /\ UNCHANGED <<decVars, cfgVars, smVars, historyData, runs, svcVars>>

\* one iteration of the loop over the primary series, up to the choice of
\* the secondary snapshot
AlignStep ==
    /\ pc = "walk"
    /\ align.i <= Len(align.drift)
    /\ LET ts == align.drift[align.i].ts
           j == AdvanceJ(align.dydx, align.j, ts)
       IN  align' = [align EXCEPT
                        !.i = align.i + 1,
                        !.j = j,
                        !.out = Append(align.out,
                                       [ts |-> ts, j |-> j,
                                        used |-> InTolerance(align.dydx, j, ts)])]
    /\ UNCHANGED <<pc, decVars, cfgVars, smVars, historyData, runs, svcVars>>

NextAlign == SortSeries \/ AlignStep

SpecAlign == InitAlign /\ [][NextAlign]_vars

\* the walk is synchronous code: a sort and a for loop that run to their
\* end once runSimulation has been called
SpecAlignFair == SpecAlign /\ WF_vars(NextAlign)

----------------------------------------------------------------------------
(* Spec: both drivers fed the same snapshots, one step at a time           *)

MaxSteps == 3

\* FRA_POLL_SECONDS default, in ms
PollMs == 60 * 1000

\* spacing of the collected history, in ms
HourMs == 3600 * 1000

TsSteps == {PollMs, HourMs}

\* hourlyPct * 24 * 365, from hourly units into APR units
AprOf(hourlyPct) == (hourlyPct * 219) \div 250

\* primary-venue hourly rates: -0.0015 %, 0.00005 %, 0.001 %, 0.0014 %
DriftHourlyVals == {0 - 1500000, 50000, 1000000, 1400000}

\* secondary-venue hourly rates: -0.0015 %, 0.0002 %, 0.003 %
VenueBHourlyVals == {0 - 1500000, 200000, 3000000}

\* what the secondary venue yields for a step: nothing, or a snapshot
VenueBVals ==
    {[has |-> FALSE, h |-> 0]} \cup
    (IF PERP_PERP THEN {[has |-> TRUE, h |-> h] : h \in VenueBHourlyVals} ELSE {})

Init ==
    /\ pc = "feed"
    /\ PERP_PERP \in BOOLEAN
    /\ now = 0 /\ snap = NoSnap /\ stepNo = 0
    /\ singlePositions = [m \in Markets |-> NoSingle]
    /\ crossPositions = [m \in Markets |-> NoCross]
    /\ tradeEvents = << >>
    /\ positions = [m \in Markets |-> NoSingle]
    /\ crossPos = [m \in Markets |-> NoCross]
    /\ liveEvents = << >>
    /\ hist = << >>
    /\ cumulativePnl = 0
    /\ pnlSeries = << >>
    /\ DecIdle
    /\ CfgIdle
    /\ AlignIdle
    /\ RunsIdle
    /\ SvcIdle
    /\ BootIdle

\* the next primary snapshot and the secondary snapshot aligned with it
Feed ==
    /\ pc = "feed"
    /\ stepNo < MaxSteps
    /\ \E dt \in TsSteps, h \in DriftHourlyVals, b \in VenueBVals :
         LET s == [ts |-> now + dt, hourlyPct |-> h, aprPct |-> AprOf(h),
                   hasB |-> b.has, bHourlyPct |-> b.h, bAprPct |-> AprOf(b.h)]
         IN  /\ snap' = s
             /\ now' = now + dt
             /\ hist' = Append(hist, s)
    /\ stepNo' = stepNo + 1
    /\ pc' = "backtest"
    /\ UNCHANGED <<singlePositions, crossPositions, tradeEvents, positions,
                   crossPos, liveEvents, PERP_PERP, cumulativePnl, pnlSeries,
                   decVars, cfgVars, runVars, svcVars>>

Next == Feed \/ BacktestStep \/ LiveTick

Spec == Init /\ [][Next]_vars

----------------------------------------------------------------------------
(* SpecProgress: the same steps with cross-venue mode switched off.  The   *)
(* backtest's loop body is synchronous code inside a for loop: once a      *)
(* snapshot has been read the body runs to its end, which is the weak      *)
(* fairness of BacktestStep                                                *)

InitProgress == Init /\ PERP_PERP = FALSE

SpecProgress == InitProgress /\ [][Next]_vars /\ WF_vars(BacktestStep)

----------------------------------------------------------------------------
(* SpecNoise: the cross-venue block of both drivers over readings whose    *)
(* primary rate lies inside the epsilon band of sgn on either side of zero *)

\* hourly rates of either venue: +-0.0000005 %, 0.0014 %, -0.0015 %
NoiseHourlyVals == {0 - 500, 500, 1400000, 0 - 1500000}

InitNoise ==
    /\ pc = "noise-feed"
    /\ PERP_PERP = TRUE
    /\ now = 0 /\ snap = NoSnap /\ stepNo = 0
    /\ singlePositions = [m \in Markets |-> NoSingle]
    /\ crossPositions = [m \in Markets |-> NoCross]
    /\ tradeEvents = << >>
    /\ positions = [m \in Markets |-> NoSingle]
    /\ crossPos = [m \in Markets |-> NoCross]
    /\ liveEvents = << >>
    /\ hist = << >>
    /\ cumulativePnl = 0
    /\ pnlSeries = << >>
    /\ DecIdle
    /\ CfgIdle
    /\ AlignIdle
    /\ RunsIdle
    /\ SvcIdle
    /\ BootIdle

\* the next hourly reading of both venues
NoiseFeed ==
    /\ pc = "noise-feed"
    /\ stepNo < MaxSteps
    /\ \E h \in NoiseHourlyVals, b \in NoiseHourlyVals :
         LET s == [ts |-> now + HourMs, hourlyPct |-> h, aprPct |-> AprOf(h),
                   hasB |-> TRUE, bHourlyPct |-> b, bAprPct |-> AprOf(b)]
         IN  /\ snap' = s
             /\ hist' = Append(hist, s)
    /\ now' = now + HourMs
    /\ stepNo' = stepNo + 1
    /\ pc' = "noise-bt"
    /\ UNCHANGED <<singlePositions, crossPositions, tradeEvents, positions,
                   crossPos, liveEvents, PERP_PERP, cumulativePnl, pnlSeries,
                   decVars, cfgVars, runVars, svcVars>>

\* the backtest's cross-venue block on the reading
NoiseBacktestCross ==
    /\ pc = "noise-bt"
    /\ crossPositions' =
         [m \in Markets |-> BtCrossBlock(m, snap.ts, snap, crossPositions[m]).pos]
    /\ pc' = "noise-live"
    /\ UNCHANGED <<now, snap, stepNo, hist, singlePositions, tradeEvents,
                   positions, crossPos, liveEvents, PERP_PERP, cumulativePnl,
                   pnlSeries, decVars, cfgVars, runVars, svcVars>>

\* the live worker's cross-venue block on the reading
NoiseLiveCross ==
    /\ pc = "noise-live"
    /\ crossPos' =
         [m \in Markets |-> LiveCrossBlock(m, snap.ts, snap, crossPos[m]).pos]
    /\ pc' = "noise-feed"
    /\ UNCHANGED <<now, snap, stepNo, hist, singlePositions, crossPositions,
                   tradeEvents, positions, liveEvents, PERP_PERP,
                   cumulativePnl, pnlSeries, decVars, cfgVars, runVars,
                   svcVars>>

NextNoise == NoiseFeed \/ NoiseBacktestCross \/ NoiseLiveCross

SpecNoise == InitNoise /\ [][NextNoise]_vars

----------------------------------------------------------------------------
(* SpecExec: the live worker when an awaited call of a tick rejects.  In   *)
(* oneMarketTick every Map.set comes after the adapter calls of its        *)
(* action, so a rejection leaves the function before the set; main()       *)
(* catches and logs it and goes on with the next market.                   *)

\* a position written before its adapter calls are awaited
SetBeforeExec(old, new, rejected) == new

\* await <adapter calls>; map.set(market, new): what the map holds afterwards
SetAfterExec(old, new, rejected) == IF rejected THEN old ELSE new

\* main()'s console.error line for a tick that threw: kind is the part of the
\* tick that was running, action what it was about to do
ErrorEvent(market, t, kind, action) ==
    [ts |-> t, market |-> market, type |-> "ERROR", action |-> action,
     sideA |-> kind, sideB |-> "NA"]

\* oneMarketTick(market) with a rejection in part failAt: the funding fetch,
\* an adapter call of the cross block, or one of the single-venue block
oneMarketTickThrows(market, failAt) ==
    LET t == snap.ts
        cross == IF snap.hasB
                 THEN LiveCrossBlock(market, t, snap, crossPos[market])
                 ELSE [pos |-> crossPos[market], events |-> << >>,
                       returned |-> FALSE]
        single == LiveSingleBlock(market, t, snap, positions[market])
    IN  CASE failAt = "feed" ->
               /\ liveEvents' = Append(liveEvents,
                                       ErrorEvent(market, t, "FEED", "FETCH"))
               /\ UNCHANGED <<crossPos, positions>>
          [] failAt = "cross" ->
               /\ cross.events # << >>
               /\ crossPos' = [crossPos EXCEPT ![market] =
                                  SetAfterExec(crossPos[market], cross.pos, TRUE)]
               /\ liveEvents' = Append(liveEvents,
                                       ErrorEvent(market, t, "CROSS",
                                                  cross.events[1].action))
               /\ UNCHANGED positions
          [] failAt = "single" ->
               /\ ~cross.returned
               /\ single.events # << >>
               /\ crossPos' = [crossPos EXCEPT ![market] = cross.pos]
               /\ positions' = [positions EXCEPT ![market] =
                                   SetAfterExec(positions[market], single.pos, TRUE)]
               /\ liveEvents' = liveEvents \o cross.events
                                   \o << ErrorEvent(market, t, "SINGLE",
                                                    single.events[1].action) >>

MaxThrows == 1

IsErrorEv(e) == e.type = "ERROR"

LiveTickThrows ==
    /\ pc = "live"
    /\ Len(SelectSeq(liveEvents, IsErrorEv)) < MaxThrows
    /\ \E market \in Markets, failAt \in {"feed", "cross", "single"} :
          oneMarketTickThrows(market, failAt)
    /\ pc' = "feed"
    /\ UNCHANGED <<now, snap, stepNo, singlePositions, crossPositions,
                   tradeEvents, PERP_PERP, hist, cumulativePnl, pnlSeries,
                   decVars, cfgVars, runVars, svcVars>>

NextExec == Feed \/ BacktestStep \/ LiveTick \/ LiveTickThrows

SpecExec == Init /\ [][NextExec]_vars

----------------------------------------------------------------------------
(* SpecRuns: runSimulation as a whole, over every market of MARKETS, on    *)
(* the module-level position maps                                          *)

\* MARKETS, in configured order
MARKETS == << "SOL-PERP", "ETH-PERP" >>

MarketSet == {MARKETS[k] : k \in DOMAIN MARKETS}

\* the snapshot the loop body works on: primary d, secondary dydxData[j] if
\* it is within tolerance
AlignedSnap(d, dydxData, j) ==
    LET has == InTolerance(dydxData, j, d.ts)
    IN  [ts |-> d.ts, hourlyPct |-> d.hourlyPct, aprPct |-> d.aprPct,
         hasB |-> has,
         bHourlyPct |-> IF has THEN dydxData[j].hourlyPct ELSE 0,
         bAprPct |-> IF has THEN dydxData[j].aprPct ELSE 0]

\* the end of the loop body: the maps, tradeEvents, cumulativePnl and
\* pnlSeries after result r of the step at ts
SimRecord(st, market, ts, r) ==
    [single |-> [st.single EXCEPT ![market] = r.single],
     cross |-> [st.cross EXCEPT ![market] = r.cross],
     events |-> st.events \o r.events,
     cum |-> r.total,
     series |-> Append(st.series, [ts |-> ts, pnl |-> r.total])]

\* the loop body on the aligned snapshot s
SimBody(st, market, s) ==
    SimRecord(st, market, s.ts,
              BtStep(market, s, st.single[market], st.cross[market], st.cum))

\* for (let i = ...; i < driftData.length; i++) { ... }: st holds the maps,
\* tradeEvents, cumulativePnl and pnlSeries; SimAt is iteration i with the
\* pointer already advanced to j
RECURSIVE SimSeries(_, _, _, _, _, _)
RECURSIVE SimAt(_, _, _, _, _, _)
SimAt(st, market, driftData, dydxData, i, j) ==
    SimSeries(SimBody(st, market, AlignedSnap(driftData[i], dydxData, j)),
              market, driftData, dydxData, i + 1, j)

SimSeries(st, market, driftData, dydxData, i, j) ==
    IF i > Len(driftData)
    THEN st
    ELSE SimAt(st, market, driftData, dydxData, i,
               AdvanceJ(dydxData, j, driftData[i].ts))

\* for (const market of MARKETS) { ... }, on series already sorted
RECURSIVE SimMarkets(_, _, _)
SimMarkets(st, data, k) ==
    IF k > Len(MARKETS)
    THEN st
    ELSE SimMarkets(SimSeries(st, MARKETS[k], data[MARKETS[k]].drift,
                              data[MARKETS[k]].dydx, 1, 1),
                    data, k + 1)

MaxRuns == 2

MaxSeries == 2

FundingSnap(tsv, h) == [ts |-> tsv, hourlyPct |-> h, aprPct |-> AprOf(h)]

RunDriftSnaps ==
    {FundingSnap(k * HourMs, h) : k \in 1..MaxSeries,
                                  h \in {0 - 1500000, 50000}}

RunDriftSeries == UNION {[1..n -> RunDriftSnaps] : n \in 1..MaxSeries}

RunDydxSeries ==
    {<< >>, << FundingSnap(HourMs, 3000000) >>}

InitRuns ==
    /\ pc = "run"
    /\ PERP_PERP \in BOOLEAN
    /\ historyData \in [MarketSet -> [drift : RunDriftSeries, dydx : RunDydxSeries]]
    /\ runs = << >>
    /\ singlePositions = [m \in MarketSet |-> NoSingle]
    /\ crossPositions = [m \in MarketSet |-> NoCross]
    /\ tradeEvents = << >> /\ cumulativePnl = 0 /\ pnlSeries = << >>
    /\ now = 0 /\ snap = NoSnap /\ stepNo = 0 /\ hist = << >>
    /\ positions = [m \in Markets |-> NoSingle]
    /\ crossPos = [m \in Markets |-> NoCross]
    /\ liveEvents = << >>
    /\ DecIdle
    /\ CfgIdle
    /\ AlignIdle
    /\ SvcIdle
    /\ BootIdle

\* one call of runSimulation(): fresh tradeEvents, cumulativePnl and
\* pnlSeries, the series sorted in place, the position maps as they are
runSimulation ==
    /\ pc = "run"
    /\ Len(runs) < MaxRuns
    /\ LET sorted == [m \in MarketSet |->
                         [drift |-> SortSeq(historyData[m].drift, TsBefore),
                          dydx |-> SortSeq(historyData[m].dydx, TsBefore)]]
           st0 == [single |-> singlePositions, cross |-> crossPositions,
                   events |-> << >>, cum |-> 0, series |-> << >>]
           r == SimMarkets(st0, sorted, 1)
       IN  /\ historyData' = sorted
           /\ singlePositions' = r.single
           /\ crossPositions' = r.cross
           /\ tradeEvents' = r.events
           /\ cumulativePnl' = r.cum
           /\ pnlSeries' = r.series
           /\ runs' = Append(runs, [tradeEvents |-> r.events,
                                    pnlSeries |-> r.series])
    /\ UNCHANGED <<pc, now, snap, stepNo, hist, positions, crossPos, liveEvents,
                   PERP_PERP, align, decVars, cfgVars, svcVars>>

NextRuns == runSimulation

SpecRuns == InitRuns /\ [][NextRuns]_vars

----------------------------------------------------------------------------
(* SpecSvc: the plugin's FundingArbService loop.  Two versions of the      *)
(* class are in the repository: service.ts ("guarded"), whose timer and    *)
(* begin() go through tickSafe and whose tick catches errors per market,   *)
(* and the one in actions/status.ts ("unguarded"), whose timer and begin() *)
(* call tick directly and whose tick has no try/catch.  svc.ticks holds    *)
(* the tick() activations suspended at an await; svc.log the finished ones *)
(* svc.intervals is the set of intervals that setInterval has scheduled    *)
(* and clearInterval has not cleared, svc.timer the handle in this.timer   *)

MaxBegins == 2

MaxStops == 2

MaxFires == 2

\* FRA_MIN_APR of the environment schema, in percent
FRA_MIN_APR == 25

\* APR readings of getHourlyFundingPctAndApr, in percent
SvcAprVals == {0 - 30, 10, 30}

RemoveAt(seq, k) == SubSeq(seq, 1, k - 1) \o SubSeq(seq, k + 1, Len(seq))

\* this.timer = setInterval(...): a new interval, whose handle replaces the
\* one held
SetInterval(s) ==
    [s EXCEPT !.made = @ + 1, !.intervals = @ \cup {s.made + 1},
              !.timer = s.made + 1]

\* a call of tick(): a new activation suspended at the first market's await
StartTick(s, origin) ==
    [s EXCEPT !.ticks = Append(@, [origin |-> origin, i |-> 1,
                                   outcomes |-> << >>])]

\* tickSafe(): skip when a run is in flight, else flag it and call tick().
\* A skipped tickSafe() returns to begin() at once, which sets the interval
tickSafe(s, origin) ==
    IF s.inFlight
    THEN LET t == [s EXCEPT !.skipped = @ + 1]
         IN  IF origin = "begin" THEN SetInterval(t) ELSE t
    ELSE StartTick([s EXCEPT !.inFlight = TRUE], origin)

\* what either version calls to run a cycle
RunCycle(s, origin) ==
    IF s.variant = "guarded" THEN tickSafe(s, origin) ELSE StartTick(s, origin)

\* the return of tick() activation k: threw tells whether it rejected.  The
\* guarded version clears inFlight in tickSafe's finally; begin() sets the
\* interval once its awaited first cycle has returned without throwing
EndTick(s, k, outcomes, threw) ==
    LET t == s.ticks[k]
        u == [s EXCEPT !.ticks = RemoveAt(@, k),
                       !.log = Append(@, [origin |-> t.origin,
                                          outcomes |-> outcomes,
                                          threw |-> threw]),
                       !.inFlight = IF s.variant = "guarded" THEN FALSE ELSE @]
    IN  IF t.origin = "begin" /\ ~threw THEN SetInterval(u) ELSE u

\* the loop body of tick() for one market once its reading has arrived:
\* below the threshold the market is skipped, at or above it the spot hedge
\* and the perp leg are opened.  tick() keeps no record of what it opened
CycleOutcome(aprPct) ==
    IF Abs(aprPct) < FRA_MIN_APR THEN "evaluated" ELSE "opened"

InitSvc ==
    /\ pc = "svc"
    /\ \E v \in {"guarded", "unguarded"} :
         svc = [NoSvc EXCEPT !.variant = v,
                             !.opens = [m \in MarketSet |-> 0]]
    /\ BootIdle
    /\ DecIdle
    /\ CfgIdle
    /\ SmIdle
    /\ AlignIdle
    /\ RunsIdle

\* begin(): idempotent while running; runs one cycle at once
begin ==
    /\ pc = "svc"
    /\ svc.begins < MaxBegins
    /\ svc' = IF svc.running
              THEN [svc EXCEPT !.begins = @ + 1, !.lastCall = "begin"]
              ELSE RunCycle([svc EXCEPT !.begins = @ + 1, !.running = TRUE,
                                        !.lastCall = "begin"],
                            "begin")
    /\ UNCHANGED <<pc, boot, decVars, cfgVars, smVars, runVars>>

\* stop(): clears the interval whose handle is held, drops the handle and
\* resets status.running
stop ==
    /\ pc = "svc"
    /\ svc.stops < MaxStops
    /\ svc' = [svc EXCEPT !.intervals = @ \ {svc.timer},
                          !.timer = NoTimer,
                          !.running = FALSE,
                          !.stops = @ + 1,
                          !.lastCall = "stop"]
    /\ UNCHANGED <<pc, boot, decVars, cfgVars, smVars, runVars>>

\* the callback of a scheduled interval
TimerFires ==
    /\ pc = "svc"
    /\ svc.intervals # {}
    /\ svc.fires < MaxFires
    /\ svc' = RunCycle([svc EXCEPT !.fires = @ + 1], "timer")
    /\ UNCHANGED <<pc, boot, decVars, cfgVars, smVars, runVars>>

\* the loop body of tick() activation k for its current market: the awaited
\* calls resolve (ok) or one of them rejects.  A rejection is caught per
\* market in the guarded version and leaves tick() in the unguarded one
MarketCycle ==
    /\ pc = "svc"
    /\ \E k \in DOMAIN svc.ticks, ok \in BOOLEAN, aprPct \in SvcAprVals :
         LET t == svc.ticks[k]
             outcome == IF ok THEN CycleOutcome(aprPct) ELSE "failed"
             outcomes == Append(t.outcomes, outcome)
             s == IF outcome = "opened"
                  THEN [svc EXCEPT !.opens[MARKETS[t.i]] = @ + 1]
                  ELSE svc
         IN  svc' = IF ~ok /\ svc.variant = "unguarded"
                    THEN EndTick(s, k, outcomes, TRUE)
                    ELSE IF t.i = Len(MARKETS)
                    THEN EndTick(s, k, outcomes, FALSE)
                    ELSE [s EXCEPT !.ticks[k].i = t.i + 1,
                                   !.ticks[k].outcomes = outcomes]
    /\ UNCHANGED <<pc, boot, decVars, cfgVars, smVars, runVars>>

NextSvc == begin \/ stop \/ TimerFires \/ MarketCycle

SpecSvc == InitSvc /\ [][NextSvc]_vars

----------------------------------------------------------------------------
(* SpecMarkets: FRA_MARKETS as each program reads it into MARKETS, and one *)
(* pass over MARKETS: a run of the backtest, a tick of the live worker.    *)
(* boot.env.markets holds the entries of the variable after split, trim    *)
(* and filter; boot.loaded the program's MARKETS                           *)

MaxListed == 3

MarketLists == UNION {[1..n -> MarketSet] : n \in 1..MaxListed}

\* Array.from(new Set(list)): the first occurrence of each entry, in order
RECURSIVE Dedup(_)
Dedup(list) ==
    IF list = << >> THEN << >>
    ELSE LET front == Dedup(SubSeq(list, 1, Len(list) - 1))
             x == list[Len(list)]
         IN  IF \E i \in DOMAIN front : front[i] = x
             THEN front
             ELSE Append(front, x)

\* the backtest's MARKETS: the entries as they are listed
BacktestMarketsOf(list) == list

\* the live worker's MARKETS: the entries through a Set
WorkerMarketsOf(list) == Dedup(list)

\* for (const market of MARKETS) { ... } of runSimulation over list
RECURSIVE SimMarketList(_, _, _, _)
SimMarketList(list, st, data, k) ==
    IF k > Len(list)
    THEN st
    ELSE SimMarketList(list,
                       SimSeries(st, list[k], data[list[k]].drift,
                                 data[list[k]].dydx, 1, 1),
                       data, k + 1)

\* collected primary series: one snapshot, or two an hour apart
ListedDriftSeries ==
    {<< FundingSnap(HourMs, 0 - 1500000) >>,
     << FundingSnap(HourMs, 0 - 1500000), FundingSnap(2 * HourMs, 50000) >>}

InitMarkets ==
    /\ pc = "markets"
    /\ \E program \in {"live", "backtest"}, list \in MarketLists :
         /\ boot = [program |-> program, env |-> [markets |-> list],
                    state |-> "start", loaded |-> << >>, evaluated |-> FALSE]
         /\ IF program = "backtest"
            THEN historyData \in [MarketSet -> [drift : ListedDriftSeries,
                                                dydx : {<< >>}]]
            ELSE historyData = << >>
    /\ runs = << >>
    /\ PERP_PERP = TRUE
    /\ singlePositions = [m \in MarketSet |-> NoSingle]
    /\ crossPositions = [m \in MarketSet |-> NoCross]
    /\ tradeEvents = << >> /\ cumulativePnl = 0 /\ pnlSeries = << >>
    /\ now = 0 /\ snap = NoSnap /\ stepNo = 0 /\ hist = << >>
    /\ positions = [m \in MarketSet |-> NoSingle]
    /\ crossPos = [m \in MarketSet |-> NoCross]
    /\ liveEvents = << >>
    /\ DecIdle
    /\ CfgIdle
    /\ AlignIdle
    /\ SvcIdle

\* the module-level MARKETS constant of the program
LoadMarkets ==
    /\ pc = "markets"
    /\ boot.state = "start"
    /\ boot' = [boot EXCEPT
                   !.state = "loaded",
                   !.loaded = IF boot.program = "live"
                              THEN WorkerMarketsOf(boot.env.markets)
                              ELSE BacktestMarketsOf(boot.env.markets)]
    /\ UNCHANGED <<pc, svc, decVars, cfgVars, smVars, runVars>>

\* the backtest's main(): its one call of runSimulation()
ListedRun ==
    /\ pc = "markets"
    /\ boot.program = "backtest"
    /\ boot.state = "loaded"
    /\ LET sorted == [m \in MarketSet |->
                         [drift |-> SortSeq(historyData[m].drift, TsBefore),
                          dydx |-> SortSeq(historyData[m].dydx, TsBefore)]]
           st0 == [single |-> singlePositions, cross |-> crossPositions,
                   events |-> << >>, cum |-> 0, series |-> << >>]
           r == SimMarketList(boot.loaded, st0, sorted, 1)
       IN  /\ historyData' = sorted
           /\ singlePositions' = r.single
           /\ crossPositions' = r.cross
           /\ tradeEvents' = r.events
           /\ cumulativePnl' = r.cum
           /\ pnlSeries' = r.series
           /\ runs' = Append(runs, [tradeEvents |-> r.events,
                                    pnlSeries |-> r.series])
    /\ boot' = [boot EXCEPT !.state = "done", !.evaluated = TRUE]
    /\ UNCHANGED <<pc, now, snap, stepNo, hist, positions, crossPos, liveEvents,
                   PERP_PERP, align, svc, decVars, cfgVars>>

\* the live worker's pass over MARKETS: the funding reading of the next
\* market of the pass
ListedFeed ==
    /\ pc = "markets"
    /\ boot.program = "live"
    /\ boot.state = "loaded"
    /\ stepNo < Len(boot.loaded)
    /\ \E h \in {0 - 1500000, 50000} :
         LET s == [ts |-> PollMs, hourlyPct |-> h, aprPct |-> AprOf(h),
                   hasB |-> FALSE, bHourlyPct |-> 0, bAprPct |-> 0]
         IN  /\ snap' = s
             /\ hist' = Append(hist, [market |-> boot.loaded[stepNo + 1],
                                      hourlyPct |-> h])
    /\ now' = PollMs
    /\ pc' = "markets-tick"
    /\ UNCHANGED <<stepNo, singlePositions, crossPositions, tradeEvents,
                   positions, crossPos, liveEvents, PERP_PERP, cumulativePnl,
                   pnlSeries, decVars, cfgVars, runVars, svcVars>>

\* oneMarketTick on that market; the pass ends after the last market
ListedTick ==
    /\ pc = "markets-tick"
    /\ oneMarketTick(boot.loaded[stepNo + 1])
    /\ stepNo' = stepNo + 1
    /\ boot' = IF stepNo + 1 = Len(boot.loaded)
               THEN [boot EXCEPT !.state = "done", !.evaluated = TRUE]
               ELSE boot
    /\ pc' = "markets"
    /\ UNCHANGED <<now, snap, hist, singlePositions, crossPositions,
                   tradeEvents, PERP_PERP, cumulativePnl, pnlSeries, svc,
                   decVars, cfgVars, runVars>>

NextMarkets == LoadMarkets \/ ListedRun \/ ListedFeed \/ ListedTick

SpecMarkets == InitMarkets /\ [][NextMarkets]_vars

----------------------------------------------------------------------------
(* SpecPaper: FRA_PAPER as each component reads it.  The worker computes   *)
(* its PAPER constant, the service its status mode; openPerpPositionLive   *)
(* and jupSwap test the variable on every call and sign and send when the  *)
(* test fails.  Two versions of executions/jupiter.ts are in the           *)
(* repository: one reads process.env ("process.env"), one the parsed       *)
(* environment ("env").  boot.loaded maps each component that has read the *)
(* variable to whether it took paper mode; boot.sent holds the components  *)
(* that signed and sent a transaction                                      *)

\* values of FRA_PAPER when it is set
PaperTexts == {"true", "TRUE", "false", "False", "yes", ""}

\* s.toLowerCase() on those values
ToLowerCase(text) ==
    CASE text = "TRUE" -> "true"
      [] text = "False" -> "false"
      [] OTHER -> text

\* String(x): the text, or "undefined" for an unset variable
StringOf(e) == IF e.set THEN e.text ELSE "undefined"

\* z.string().default(dflt): the default replaces an unset variable only
ZodDefault(e, dflt) == IF e.set THEN e ELSE EnvVal(dflt)

\* process.env.FRA_PAPER?.toLowerCase() !== 'false'
WorkerPaper(e) == ~(e.set /\ ToLowerCase(e.text) = "false")

\* String(env.FRA_PAPER).toLowerCase() === 'true'
EnvPaper(e) == ToLowerCase(StringOf(ZodDefault(e, "true"))) = "true"

\* String(process.env.FRA_PAPER).toLowerCase() === 'true'
ProcessEnvPaper(e) == ToLowerCase(StringOf(e)) = "true"

Components == {"worker", "status", "drift", "jupiter"}

\* the test component c makes
PaperOf(c, e, jupiter) ==
    CASE c = "worker" -> WorkerPaper(e)
      [] c = "jupiter" /\ jupiter = "process.env" -> ProcessEnvPaper(e)
      [] OTHER -> EnvPaper(e)

InitPaper ==
    /\ pc = "paper"
    /\ \E e \in {Unset} \cup {EnvVal(t) : t \in PaperTexts},
          jupiter \in {"process.env", "env"} :
         boot = [program |-> "paper", env |-> [paper |-> e, jupiter |-> jupiter],
                 state |-> "start", loaded |-> << >>, sent |-> {},
                 evaluated |-> FALSE]
    /\ SvcIdle
    /\ DecIdle
    /\ CfgIdle
    /\ SmIdle
    /\ AlignIdle
    /\ RunsIdle

\* component c reads the variable; the two executors sign and send unless
\* they took paper mode
ReadPaper(b, c) ==
    LET paper == PaperOf(c, b.env.paper, b.env.jupiter)
    IN  [b EXCEPT !.state = "loaded",
                  !.loaded = (c :> paper) @@ @,
                  !.sent = IF c \in {"drift", "jupiter"} /\ ~paper
                           THEN @ \cup {c} ELSE @]

\* the worker's module-level PAPER constant
LoadWorkerPaper ==
    /\ pc = "paper"
    /\ "worker" \notin DOMAIN boot.loaded
    /\ boot' = ReadPaper(boot, "worker")
    /\ UNCHANGED <<pc, svc, decVars, cfgVars, smVars, runVars>>

\* the service's status.mode
LoadStatusMode ==
    /\ pc = "paper"
    /\ "status" \notin DOMAIN boot.loaded
    /\ boot' = ReadPaper(boot, "status")
    /\ UNCHANGED <<pc, svc, decVars, cfgVars, smVars, runVars>>

\* a call of openPerpPositionLive
CallOpenPerpPosition ==
    /\ pc = "paper"
    /\ "drift" \notin DOMAIN boot.loaded
    /\ boot' = ReadPaper(boot, "drift")
    /\ UNCHANGED <<pc, svc, decVars, cfgVars, smVars, runVars>>

\* a call of jupSwap
CallJupSwap ==
    /\ pc = "paper"
    /\ "jupiter" \notin DOMAIN boot.loaded
    /\ boot' = ReadPaper(boot, "jupiter")
    /\ UNCHANGED <<pc, svc, decVars, cfgVars, smVars, runVars>>

NextPaper ==
    LoadWorkerPaper \/ LoadStatusMode \/ CallOpenPerpPosition \/ CallJupSwap

SpecPaper == InitPaper /\ [][NextPaper]_vars

----------------------------------------------------------------------------
(* Properties of the decision engine (SpecDec)                             *)

\* the sign rule of the specification, stated independently of the code
ReceiveSide(h) == IF h >= 0 THEN "SHORT" ELSE "LONG"

OppositeSide(s) == IF s = "SHORT" THEN "LONG" ELSE "SHORT"

NearZero(h) == (h <= EPS) /\ (h >= 0 - EPS)

OppositeNonzero(a) ==
    /\ ~NearZero(a.hA) /\ ~NearZero(a.hB)
    /\ (a.hA > 0) # (a.hB > 0)

OneNearZero(a) == NearZero(a.hA) # NearZero(a.hB)

SameOrBothZero(a) == ~OppositeNonzero(a) /\ ~OneNearZero(a)

Returned == {r \in {retLive, retBt} : r # NoDec}

\* C7: opposite nonzero signs: netApr = |aprA| + |aprB| and each side is the
\* receive side of its own hourly rate, in both implementations
C7_OppositeSigns ==
    \A r \in Returned :
        OppositeNonzero(args) =>
            /\ r.netApr = Abs(args.aA) + Abs(args.aB)
            /\ r.driftSide = ReceiveSide(args.hA)
            /\ r.venueBSide = ReceiveSide(args.hB)

C7_Witness ==
    /\ retLive # NoDec /\ retBt # NoDec
    /\ args.hA = EPS + 1 /\ args.hB = 0 - (EPS + 1)
    /\ args.aA = 10 /\ args.aB = -30
    /\ retLive.netApr = 40 /\ retBt.netApr = 40

\* the receive-larger rule of the same-sign branch
ReceivesLarger(r, a) ==
    \/ /\ Abs(a.aA) >= Abs(a.aB)
       /\ r.driftSide = ReceiveSide(a.hA)
       /\ r.venueBSide = OppositeSide(r.driftSide)
    \/ /\ Abs(a.aB) >= Abs(a.aA)
       /\ r.venueBSide = ReceiveSide(a.hB)
       /\ r.driftSide = OppositeSide(r.venueBSide)

\* C8: same sign or both ~0: netApr = ||aprA| - |aprB||, the venue with the
\* larger |apr| gets the receive side of its own hourly rate and the other
\* venue the opposite side
C8_SameSign ==
    \A r \in Returned :
        SameOrBothZero(args) =>
            /\ r.netApr = Abs(Abs(args.aA) - Abs(args.aB))
            /\ ReceivesLarger(r, args)

\* C9: exactly one side ~0: netApr = max(|aprA|, |aprB|) and each side is the
\* receive side of its own hourly rate
C9_OneSideZero ==
    \A r \in Returned :
        OneNearZero(args) =>
            /\ r.netApr >= Abs(args.aA) /\ r.netApr >= Abs(args.aB)
            /\ r.netApr \in {Abs(args.aA), Abs(args.aB)}
            /\ r.driftSide = ReceiveSide(args.hA)
            /\ r.venueBSide = ReceiveSide(args.hB)

C9_Witness ==
    /\ retLive # NoDec /\ retBt # NoDec
    /\ args.hA = -1 /\ args.hB = EPS + 1
    /\ args.aA = -30 /\ args.aB = 10
    /\ retLive.netApr = 30 /\ retBt.netApr = 30
    /\ retLive.driftSide = "LONG" /\ retBt.venueBSide = "SHORT"

----------------------------------------------------------------------------
(* Properties of the position state machine (Spec)                         *)

CooldownMs == COOLDOWN_SEC * 1000

NoNewSingle(old, new) ==
    \A i \in (Len(old) + 1)..Len(new) : new[i].type # "SINGLE"

NoNewOfType(old, new, type) ==
    \A i \in (Len(old) + 1)..Len(new) : new[i].type # type

CountOf(log, type, action) ==
    Cardinality({i \in DOMAIN log : log[i].type = type /\ log[i].action = action})

\* C1: for every market, the single-venue and the cross-venue position are
\* never both open, in the backtest and in the live worker
C1_NeverBothOpen ==
    \A m \in Markets :
        /\ ~(singlePositions[m].open /\ crossPositions[m].open)
        /\ ~(positions[m].open /\ crossPos[m].open)

\* C2: on a step after which the cross position is open (entered, flipped or
\* held, a gated close or flip included), the single-venue position is
\* unchanged and the step performs no SINGLE event or execution
C2_CrossSkipsSingle ==
    [][\A m \in Markets :
        /\ (pc = "backtest" /\ crossPositions'[m].open) =>
              /\ singlePositions'[m] = singlePositions[m]
              /\ NoNewSingle(tradeEvents, tradeEvents')
        /\ (pc = "live" /\ crossPos'[m].open) =>
              /\ positions'[m] = positions[m]
              /\ NoNewSingle(liveEvents, liveEvents')]_vars

\* two log entries that are the EXIT and ENTER halves of one FLIP
FlipPair(log, i, j) ==
    /\ j = i + 1
    /\ log[i].ts = log[j].ts
    /\ log[i].type = log[j].type
    /\ log[i].action = "EXIT"
    /\ log[j].action = "ENTER"

\* C3, per market: any two actions of one market in the backtest trade log,
\* SINGLE and CROSS counted together, are at least the cooldown apart
C3_MarketCooldown ==
    \A i, j \in DOMAIN tradeEvents :
        (/\ i < j
         /\ tradeEvents[i].market = tradeEvents[j].market
         /\ ~FlipPair(tradeEvents, i, j))
        => tradeEvents[j].ts - tradeEvents[i].ts >= CooldownMs

\* C3, per position: any two actions of one market and of one kind (SINGLE or
\* CROSS) in the backtest trade log are at least the cooldown apart
C3_PositionCooldown ==
    \A i, j \in DOMAIN tradeEvents :
        (/\ i < j
         /\ tradeEvents[i].market = tradeEvents[j].market
         /\ tradeEvents[i].type = tradeEvents[j].type
         /\ ~FlipPair(tradeEvents, i, j))
        => tradeEvents[j].ts - tradeEvents[i].ts >= CooldownMs

\* a SINGLE ENTER, then a step inside the cooldown window on which the close
\* was indicated and gated, then the EXIT once the window had passed
C3_Witness ==
    \E i, j \in DOMAIN tradeEvents, k \in DOMAIN hist :
        /\ i < j
        /\ tradeEvents[i].type = "SINGLE" /\ tradeEvents[i].action = "ENTER"
        /\ tradeEvents[j].type = "SINGLE" /\ tradeEvents[j].action = "EXIT"
        /\ hist[k].ts > tradeEvents[i].ts
        /\ hist[k].ts - tradeEvents[i].ts < CooldownMs
        /\ Abs(hist[k].aprPct) <= EXIT_APR
        /\ tradeEvents[j].ts > hist[k].ts

Cooling(p, t) == p.exists /\ t - p.lastActionAt < CooldownMs

\* an ENTER, EXIT or FLIP of the single-venue position is indicated
SingleIndicated(p, s) ==
    IF p.open
    THEN Abs(s.aprPct) <= EXIT_APR \/ ReceiveSide(s.hourlyPct) # p.perpSide
    ELSE Abs(s.aprPct) >= ENTER_APR

\* an ENTER, EXIT or FLIP of the cross-venue position is indicated by dec
CrossIndicated(p, dec) ==
    IF p.open
    THEN \/ dec.netApr <= EXIT_APR
         \/ dec.driftSide # p.driftSide
         \/ dec.venueBSide # p.venueBSide
    ELSE dec.netApr >= ENTER_APR

\* C4: an action that is indicated while the position is cooling emits no
\* event and leaves every field of the position unchanged
C4_CoolingHoldsState ==
    [][\A m \in Markets :
        /\ (/\ pc = "backtest"
            /\ Cooling(singlePositions[m], snap.ts)
            /\ SingleIndicated(singlePositions[m], snap)) =>
              /\ singlePositions'[m] = singlePositions[m]
              /\ NoNewOfType(tradeEvents, tradeEvents', "SINGLE")
        /\ (/\ pc = "backtest"
            /\ PERP_PERP
            /\ Cooling(crossPositions[m], snap.ts)
            /\ CrossIndicated(crossPositions[m], BtDecision(snap))) =>
              /\ crossPositions'[m] = crossPositions[m]
              /\ NoNewOfType(tradeEvents, tradeEvents', "CROSS")
        /\ (/\ pc = "live"
            /\ Cooling(positions[m], snap.ts)
            /\ SingleIndicated(positions[m], snap)) =>
              /\ positions'[m] = positions[m]
              /\ NoNewOfType(liveEvents, liveEvents', "SINGLE")
        /\ (/\ pc = "live"
            /\ snap.hasB
            /\ Cooling(crossPos[m], snap.ts)
            /\ CrossIndicated(crossPos[m],
                   crossDecision(snap.hourlyPct, snap.aprPct,
                                 snap.bHourlyPct, snap.bAprPct))) =>
              /\ crossPos'[m] = crossPos[m]
              /\ NoNewOfType(liveEvents, liveEvents', "CROSS")]_vars

\* the cross-venue observations as each driver reads them: the backtest
\* divides hourly rates by 100 and takes an absent secondary leg as 0; the
\* live worker evaluates the cross path only when the secondary is present
BtObs ==
    [k \in DOMAIN hist |->
        [hA |-> hist[k].hourlyPct \div 100, aA |-> hist[k].aprPct,
         hB |-> (IF hist[k].hasB THEN hist[k].bHourlyPct ELSE 0) \div 100,
         aB |-> IF hist[k].hasB THEN hist[k].bAprPct ELSE 0]]

HasB(s) == s.hasB

LiveObs ==
    LET withB == SelectSeq(hist, HasB)
    IN  [k \in DOMAIN withB |->
            [hA |-> withB[k].hourlyPct, aA |-> withB[k].aprPct,
             hB |-> withB[k].bHourlyPct, aB |-> withB[k].bAprPct]]

\* the net APR the specification assigns to an observation
SpecNet(a) ==
    IF OppositeNonzero(a) THEN Abs(a.aA) + Abs(a.aB)
    ELSE IF OneNearZero(a) THEN Max(Abs(a.aA), Abs(a.aB))
    ELSE Abs(Abs(a.aA) - Abs(a.aB))

SignClass(h) == IF NearZero(h) THEN 0 ELSE IF h > 0 THEN 1 ELSE -1

\* neither venue's funding-rate sign changes along obs
SignsSteady(obs) ==
    \A i, j \in DOMAIN obs :
        /\ SignClass(obs[i].hA) = SignClass(obs[j].hA)
        /\ SignClass(obs[i].hB) = SignClass(obs[j].hB)
        /\ (obs[i].hA >= 0) = (obs[j].hA >= 0)
        /\ (obs[i].hB >= 0) = (obs[j].hB >= 0)

\* the venue with the larger |apr| does not change along obs
OrderSteady(obs) ==
    \A i, j \in DOMAIN obs :
        (Abs(obs[i].aA) >= Abs(obs[i].aB)) = (Abs(obs[j].aA) >= Abs(obs[j].aB))

NetAboveExit(obs) == \A i \in DOMAIN obs : SpecNet(obs[i]) > EXIT_APR

\* the single-venue reading: |aprPct| stays above exit, the sign is steady
SingleSteady ==
    /\ \A k \in DOMAIN hist : Abs(hist[k].aprPct) > EXIT_APR
    /\ \A i, j \in DOMAIN hist : (hist[i].hourlyPct >= 0) = (hist[j].hourlyPct >= 0)

AtMostOneEnterNoExit(log, type) ==
    /\ CountOf(log, type, "ENTER") <= 1
    /\ CountOf(log, type, "EXIT") = 0
    /\ CountOf(log, type, "FLIP") = 0

----------------------------------------------------------------------------
(* Properties of the transition rules (Spec)                               *)

\* the events a step appended to a log, of one type
IsSingleEv(e) == e.type = "SINGLE"

IsCrossEv(e) == e.type = "CROSS"

NewEvents(old, new) == SubSeq(new, Len(old) + 1, Len(new))

NewSingle(old, new) == SelectSeq(NewEvents(old, new), IsSingleEv)

NewCross(old, new) == SelectSeq(NewEvents(old, new), IsCrossEv)

Actions(evs) == [i \in DOMAIN evs |-> evs[i].action]

SpotFor(perpSide) == IF perpSide = "SHORT" THEN "BUY" ELSE "SELL"

\* the single-venue entry rule on one step: p before, q after, evs the SINGLE
\* events of the step, s the snapshot
SingleEntryRule(p, q, evs, s) ==
    LET enter == Abs(s.aprPct) >= ENTER_APR /\ ~Cooling(p, s.ts)
    IN  /\ enter =>
              /\ Actions(evs) = << "ENTER" >>
              /\ q.open
              /\ q.perpSide = ReceiveSide(s.hourlyPct)
              /\ q.spotSide = SpotFor(q.perpSide)
              /\ q.openedAt = s.ts /\ q.lastActionAt = s.ts
        /\ ~enter => (evs = << >> /\ ~q.open)
        /\ Abs(s.aprPct) < ENTER_APR => evs = << >>

\* C11: with the cross path inactive for the step, a closed or never-seen
\* single-venue position ENTERs iff |aprPct| >= enter and it is not cooling;
\* the entered perp side is SHORT when hourlyPct >= 0 and LONG otherwise, the
\* spot side is the hedge of the perp side; below enter no event is emitted
C11_SingleEntry ==
    [][\A m \in Markets :
        /\ (/\ pc = "backtest"
            /\ ~crossPositions'[m].open
            /\ ~singlePositions[m].open) =>
              SingleEntryRule(singlePositions[m], singlePositions'[m],
                              NewSingle(tradeEvents, tradeEvents'), snap)
        /\ (/\ pc = "live"
            /\ ~crossPos'[m].open
            /\ ~positions[m].open) =>
              SingleEntryRule(positions[m], positions'[m],
                              NewSingle(liveEvents, liveEvents'), snap)]_vars

\* a +0.0014 %/h snapshot (APR 12.264 %) entered SHORT / BUY in both drivers,
\* and a later snapshot above enter found the closed position cooling
C11_Witness ==
    /\ pc = "feed"
    /\ Len(hist) = 3
    /\ hist[1].hourlyPct = 1400000 /\ ~hist[1].hasB
    /\ Actions(tradeEvents) = << "ENTER", "EXIT" >>
    /\ Actions(liveEvents) = << "ENTER", "EXIT" >>
    /\ tradeEvents[1].type = "SINGLE" /\ tradeEvents[1].driftSide = "SHORT"
    /\ tradeEvents[1].spotSide = "BUY"
    /\ liveEvents[1].type = "SINGLE" /\ liveEvents[1].sideA = "SHORT"
    /\ liveEvents[1].sideB = "BUY"
    /\ hist[3].ts - tradeEvents[2].ts < CooldownMs
    /\ Abs(hist[3].aprPct) >= ENTER_APR

\* the single-venue management rule on one step of an open, non-cooling
\* position: flipActs is how the driver records a FLIP
SingleManageRule(p, q, evs, s, flipActs) ==
    LET absApr == Abs(s.aprPct)
        desired == ReceiveSide(s.hourlyPct)
        close == absApr <= EXIT_APR \/ (desired # p.perpSide /\ absApr < ENTER_APR)
        flip == desired # p.perpSide /\ absApr >= ENTER_APR /\ ~close
    IN  /\ close <=> (Actions(evs) = << "EXIT" >> /\ ~q.open)
        /\ flip <=> (Actions(evs) = flipActs /\ q.open /\ q.perpSide = desired
                     /\ q.perpSide # p.perpSide /\ q.lastActionAt = s.ts)
        /\ (~close /\ ~flip) <=> (evs = << >> /\ q.open /\ q.perpSide = p.perpSide
                                  /\ q.lastActionAt = p.lastActionAt)

ObsBt(s) ==
    [hA |-> s.hourlyPct \div 100, aA |-> s.aprPct,
     hB |-> (IF s.hasB THEN s.bHourlyPct ELSE 0) \div 100,
     aB |-> IF s.hasB THEN s.bAprPct ELSE 0]

ObsLive(s) ==
    [hA |-> s.hourlyPct, aA |-> s.aprPct, hB |-> s.bHourlyPct, aB |-> s.bAprPct]

\* the cross-venue rule on one step of a non-cooling position: net is the
\* net APR of the observation, dec the decision the driver computed
CrossRule(p, q, evs, t, net, dec, flipActs) ==
    LET flipNeeded == p.driftSide # dec.driftSide \/ p.venueBSide # dec.venueBSide
        close == net <= EXIT_APR \/ (flipNeeded /\ net < ENTER_APR)
        flip == flipNeeded /\ net >= ENTER_APR /\ ~close
        fresh == /\ q.open
                 /\ q.driftSide = dec.driftSide /\ q.venueBSide = dec.venueBSide
                 /\ q.lastActionAt = t /\ q.lastNetApr = net
    IN  IF ~p.open
        THEN /\ net >= ENTER_APR <=> (Actions(evs) = << "ENTER" >> /\ fresh)
             /\ net < ENTER_APR <=> (evs = << >> /\ q = p)
        ELSE /\ close <=> (Actions(evs) = << "EXIT" >> /\ ~q.open)
             /\ flip <=> (Actions(evs) = flipActs /\ fresh)
             /\ (~close /\ ~flip) <=> (evs = << >> /\ q = p)

\* C13: a closed, non-cooling cross position ENTERs iff netApr >= enter, with
\* the sides crossDecision returned; an open, non-cooling one EXITs iff
\* netApr <= exit or (flipNeeded and netApr < enter), FLIPs iff flipNeeded and
\* netApr >= enter and the close condition does not hold, and otherwise holds
\* with no event
C13_CrossManage ==
    [][\A m \in Markets :
        /\ (/\ pc = "backtest"
            /\ PERP_PERP
            /\ ~Cooling(crossPositions[m], snap.ts)) =>
              CrossRule(crossPositions[m], crossPositions'[m],
                        NewCross(tradeEvents, tradeEvents'), snap.ts,
                        SpecNet(ObsBt(snap)), BtDecision(snap),
                        << "EXIT", "ENTER" >>)
        /\ (/\ pc = "live"
            /\ snap.hasB
            /\ ~Cooling(crossPos[m], snap.ts)) =>
              CrossRule(crossPos[m], crossPos'[m],
                        NewCross(liveEvents, liveEvents'), snap.ts,
                        SpecNet(ObsLive(snap)),
                        crossDecision(snap.hourlyPct, snap.aprPct,
                                      snap.bHourlyPct, snap.bAprPct),
                        << "FLIP" >>)]_vars

\* a cross position was entered, flipped when the larger venue changed, and
\* closed on a weak flip (sides changed, netApr between exit and enter)
C13_Witness ==
    /\ pc = "feed"
    /\ Len(hist) = 3
    /\ \A k \in DOMAIN hist : hist[k].hasB
    /\ Actions(tradeEvents) = << "ENTER", "EXIT", "ENTER", "EXIT" >>
    /\ Actions(liveEvents) = << "ENTER", "FLIP", "EXIT" >>
    /\ \A i \in DOMAIN tradeEvents : tradeEvents[i].type = "CROSS"
    /\ \A i \in DOMAIN liveEvents : liveEvents[i].type = "CROSS"
    /\ SpecNet(ObsLive(hist[3])) > EXIT_APR
    /\ SpecNet(ObsLive(hist[3])) < ENTER_APR

\* C14: a cross-venue ENTER, EXIT or FLIP occurs only on a step where a
\* secondary-venue snapshot is available: on a step without one no CROSS
\* event is emitted and the cross position is unchanged
C14_CrossNeedsSecondary ==
    [][\A m \in Markets :
        /\ (pc = "backtest" /\ ~snap.hasB) =>
              /\ crossPositions'[m] = crossPositions[m]
              /\ NewCross(tradeEvents, tradeEvents') = << >>
        /\ (pc = "live" /\ ~snap.hasB) =>
              /\ crossPos'[m] = crossPos[m]
              /\ NewCross(liveEvents, liveEvents') = << >>]_vars

----------------------------------------------------------------------------
(* Properties of the backtest's profit/loss accounting (Spec)              *)

\* avgAprPct/100 * (hoursHeld/8760) * notional in the profit/loss unit
SpecRealized(aprThen, aprNow, heldMs) ==
    ((aprThen + aprNow) * (heldMs \div 60000)) \div 43800

\* the APR an event records for its position: |driftApr| or netApr
EventApr(e) == IF e.type = "SINGLE" THEN Abs(e.driftApr) ELSE e.netApr

\* the log index of the action that opened the position event j closes
LastActionBefore(log, j) ==
    CHOOSE i \in 1..(j - 1) :
        /\ log[i].type = log[j].type /\ log[i].market = log[j].market
        /\ log[i].action = "ENTER"
        /\ \A k \in (i + 1)..(j - 1) :
              ~(log[k].type = log[j].type /\ log[k].market = log[j].market)

\* C16: the pnl of every EXIT (a FLIP's exit half included) is
\* avgAprPct/100 * (hoursHeld/8760) * notional, avgAprPct the mean of the APR
\* recorded at the position's last action and the APR now, hoursHeld the time
\* since that action, whatever the APR was on the held steps in between
C16_RealizedPnl ==
    \A j \in DOMAIN tradeEvents :
        tradeEvents[j].action = "EXIT" =>
            LET i == LastActionBefore(tradeEvents, j)
            IN  tradeEvents[j].pnl =
                    SpecRealized(EventApr(tradeEvents[i]), EventApr(tradeEvents[j]),
                                 tradeEvents[j].ts - tradeEvents[i].ts)

\* h/100 * notional in the profit/loss unit
SpecHourly(h) == (h * 12) \div 5000

\* a leg's gain by the side it holds: a short leg gains h, a long leg -h
SideGain(h, side) == IF side = "SHORT" THEN SpecHourly(h) ELSE 0 - SpecHourly(h)

\* the continuous accrual of a step on the backtest's positions after it
AccrualAfter(m, s, legGain(_, _)) ==
    (IF singlePositions'[m].open
     THEN legGain(s.hourlyPct, singlePositions'[m].perpSide) ELSE 0)
    + (IF crossPositions'[m].open
       THEN legGain(s.hourlyPct, crossPositions'[m].driftSide)
            + legGain(IF s.hasB THEN s.bHourlyPct ELSE 0,
                      crossPositions'[m].venueBSide)
       ELSE 0)

\* C17: funding enters the cumulative total once: every step adds its
\* continuous accrual and nothing else, the realized pnl of EXIT events is
\* not added on top
C17_NoDoubleCount ==
    [][pc = "backtest" =>
        \A m \in Markets :
            cumulativePnl' - cumulativePnl = AccrualAfter(m, snap, SideGain)]_vars

RECURSIVE SumPnl(_)
SumPnl(evs) == IF evs = << >> THEN 0 ELSE Head(evs).pnl + SumPnl(Tail(evs))

\* hourlyPct/100 * notional * receiveSign, receiveSign = +1 when the held
\* side is the receiving side at that rate and -1 otherwise
SignedRateGain(h, side) ==
    SpecHourly(h) * (IF side = ReceiveSide(h) THEN 1 ELSE -1)

\* |hourlyPct|/100 * notional * receiveSign
ReceiveGain(h, side) ==
    SpecHourly(Abs(h)) * (IF side = ReceiveSide(h) THEN 1 ELSE -1)

\* what a step adds to the total beyond the realized pnl of its events
StepAccrual == cumulativePnl' - cumulativePnl
                   - SumPnl(NewEvents(tradeEvents, tradeEvents'))

\* C18, signed rate: every position open after the step's transitions gains
\* hourlyPct/100 * notional * receiveSign per leg on that step
C18_AccrualSignedRate ==
    [][pc = "backtest" =>
        /\ \A m \in Markets : StepAccrual = AccrualAfter(m, snap, SignedRateGain)
        /\ Len(pnlSeries') = Len(pnlSeries) + 1
        /\ pnlSeries'[Len(pnlSeries')].pnl = cumulativePnl']_vars

\* C18, magnitude: every position open after the step's transitions gains
\* |hourlyPct|/100 * notional * receiveSign per leg on that step: a leg on
\* the receiving side gains the magnitude of its venue's rate, a leg on the
\* paying side loses it; a position closed on the step adds nothing, one
\* entered on the step accrues for the step
C18_AccrualMagnitude ==
    [][pc = "backtest" =>
        /\ \A m \in Markets : StepAccrual = AccrualAfter(m, snap, ReceiveGain)
        /\ Len(pnlSeries') = Len(pnlSeries) + 1
        /\ pnlSeries'[Len(pnlSeries')].pnl = cumulativePnl']_vars

\* a cross position entered long on a negative primary rate and short on a
\* positive secondary rate accrued on both legs, then was closed an hour
\* later and accrued nothing on the closing step
C18_Witness ==
    /\ pc = "live"
    /\ Len(hist) = 2
    /\ hist[1].hourlyPct = 0 - 1500000
    /\ hist[1].hasB /\ hist[1].bHourlyPct = 200000
    /\ Actions(tradeEvents) = << "ENTER", "EXIT" >>
    /\ tradeEvents[1].type = "CROSS"
    /\ tradeEvents[1].driftSide = "LONG" /\ tradeEvents[1].venueBSide = "SHORT"
    /\ pnlSeries[1].pnl = 3600 + 480
    /\ pnlSeries[2].pnl = pnlSeries[1].pnl + tradeEvents[2].pnl
    /\ tradeEvents[2].pnl > 0

----------------------------------------------------------------------------
(* Properties of the backtest's alignment (SpecAlign)                      *)

Dist(a, b) == IF a >= b THEN a - b ELSE b - a

\* C15: for each primary snapshot at time t the secondary snapshot used is
\* one closest to t, and it is used iff its distance from t is < 1800000 ms:
\* whenever some secondary snapshot lies within 30 minutes of t, the
\* secondary leg is not absent for that step
C15_ClosestWithinTolerance ==
    \A k \in DOMAIN align.out :
        LET o == align.out[k]
            ds == {Dist(align.dydx[n].ts, o.ts) : n \in DOMAIN align.dydx}
        IN  /\ o.used <=> (\E d \in ds : d < 30 * 60 * 1000)
            /\ o.used => \A d \in ds : Dist(align.dydx[o.j].ts, o.ts) <= d

\* the walk has gone through the whole primary series
WalkDone == pc = "walk" /\ align.i = Len(align.drift) + 1

\* C40: within a market the pointer into the secondary series never
\* decreases and, when that series is not empty, always points at one of
\* its elements; iteration k works on the k-th primary snapshot, and the
\* walk ends having worked on each primary snapshot once
C40_PointerAndTermination ==
    /\ [][align'.j >= align.j]_vars
    /\ [](align.dydx # << >> =>
             /\ align.j \in DOMAIN align.dydx
             /\ \A k \in DOMAIN align.out : align.out[k].j \in DOMAIN align.dydx)
    /\ [](pc = "walk" =>
             /\ Len(align.out) = align.i - 1
             /\ \A k \in DOMAIN align.out : align.out[k].ts = align.drift[k].ts)
    /\ <>(WalkDone /\ Len(align.out) = Len(align.drift))

\* a finished walk whose pointer moved from the first secondary snapshot to
\* the last one and stopped there, the last primary snapshot being later
\* than every secondary one
C40_Witness ==
    /\ WalkDone
    /\ Len(align.drift) = 2 /\ Len(align.dydx) = 3
    /\ align.out[1].j = 1 /\ align.out[2].j = 3
    /\ align.drift[2].ts > align.dydx[3].ts

----------------------------------------------------------------------------
(* Properties of whole backtest runs (SpecRuns)                            *)

\* C19: two runs of the simulator on the same series and configuration
\* return identical trade logs and identical profit/loss series
C19_RunsAgree ==
    \A a, b \in DOMAIN runs : runs[a] = runs[b]

NonDecreasingTs(seq) ==
    \A a, b \in DOMAIN seq : a < b => seq[a].ts <= seq[b].ts

RECURSIVE SumLen(_, _)
SumLen(data, ms) ==
    IF ms = {} THEN 0
    ELSE LET m == CHOOSE x \in ms : TRUE
         IN  Len(data[m].drift) + SumLen(data, ms \ {m})

\* C20: a run's profit/loss series has exactly one point per primary
\* snapshot per market, and its profit/loss series and trade log are in
\* non-decreasing timestamp order across markets
C20_OutputShape ==
    \A a \in DOMAIN runs :
        /\ Len(runs[a].pnlSeries) = SumLen(historyData, MarketSet)
        /\ NonDecreasingTs(runs[a].pnlSeries)
        /\ NonDecreasingTs(runs[a].tradeEvents)

----------------------------------------------------------------------------
(* Properties of the threshold configuration (SpecCfg)                     *)

\* C6: whenever EXIT_APR is not overridden, the derived exit threshold is
\* strictly below the configured enter threshold
C6_DefaultExitBelowEnter ==
    exitCfg.state = "default" => exitCfg.value < enterCfg
----------------------------------------------------------------------------
(* Properties of the two drivers side by side (Spec)                       *)

SameSingle(a, b) ==
    /\ a.open = b.open
    /\ a.perpSide = b.perpSide /\ a.spotSide = b.spotSide
    /\ a.openedAt = b.openedAt /\ a.lastActionAt = b.lastActionAt
    /\ a.lastApr = b.lastApr

SameCross(a, b) ==
    /\ a.open = b.open
    /\ a.driftSide = b.driftSide /\ a.venueBSide = b.venueBSide
    /\ a.openedAt = b.openedAt /\ a.lastActionAt = b.lastActionAt
    /\ a.lastNetApr = b.lastNetApr

\* C25: after every step fed to both drivers, the backtest's and the live
\* worker's single-venue and cross-venue positions of the market are in the
\* same state: open flag, sides, openedAt, lastActionAt and recorded APR
C25_DriversSameState ==
    pc = "feed" =>
        \A m \in Markets :
            /\ SameSingle(singlePositions[m], positions[m])
            /\ SameCross(crossPositions[m], crossPos[m])

\* C26: on every pair of snapshots the cross decision as the backtest
\* obtains it and the one the live worker obtains have the same netApr and
\* sides, and both put the same hourly rates in the near-zero class
C26_DecisionsAgree ==
    (pc = "backtest" /\ snap.hasB) =>
        LET bt == BtDecision(snap)
            live == crossDecision(snap.hourlyPct, snap.aprPct,
                                  snap.bHourlyPct, snap.bAprPct)
        IN  /\ bt.netApr = live.netApr
            /\ bt.driftSide = live.driftSide
            /\ bt.venueBSide = live.venueBSide
            /\ sgn(snap.hourlyPct \div 100) = sgn(snap.hourlyPct)
            /\ sgn(snap.bHourlyPct \div 100) = sgn(snap.bHourlyPct)

----------------------------------------------------------------------------
(* Properties of the positions' sides and life cycle (Spec)                *)

Hedged(perpSide, spotSide) ==
    (spotSide = "BUY" <=> perpSide = "SHORT") /\ (spotSide = "SELL" <=> perpSide = "LONG")

C28_CrossLegsOpposite ==
    \A m \in Markets :
        /\ crossPositions[m].open =>
              crossPositions[m].driftSide # crossPositions[m].venueBSide
        /\ crossPos[m].open => crossPos[m].driftSide # crossPos[m].venueBSide

\* the position after a FLIP at time t: open, on the desired sides, opened
\* and last acted on at t
FlippedAt(q, t, sideA, sideB, qSideA, qSideB) ==
    /\ q.open
    /\ qSideA = sideA /\ qSideB = sideB
    /\ q.openedAt = t /\ q.lastActionAt = t

\* C29: a FLIP is an EXIT followed by an ENTER in the same step with the
\* same timestamp (one FLIP execution in the live worker), and after it the
\* position is open with the desired sides and openedAt = lastActionAt =
\* the step's timestamp
C29_FlipSemantics ==
    [][\A m \in Markets :
        /\ (pc = "backtest"
            /\ Actions(NewSingle(tradeEvents, tradeEvents')) = << "EXIT", "ENTER" >>) =>
              LET e == NewSingle(tradeEvents, tradeEvents')
              IN  /\ e[1].ts = snap.ts /\ e[2].ts = snap.ts
                  /\ FlippedAt(singlePositions'[m], snap.ts,
                               e[2].driftSide, e[2].spotSide,
                               singlePositions'[m].perpSide,
                               singlePositions'[m].spotSide)
        /\ (pc = "backtest"
            /\ Actions(NewCross(tradeEvents, tradeEvents')) = << "EXIT", "ENTER" >>) =>
              LET e == NewCross(tradeEvents, tradeEvents')
              IN  /\ e[1].ts = snap.ts /\ e[2].ts = snap.ts
                  /\ FlippedAt(crossPositions'[m], snap.ts,
                               e[2].driftSide, e[2].venueBSide,
                               crossPositions'[m].driftSide,
                               crossPositions'[m].venueBSide)
        /\ (pc = "live"
            /\ Actions(NewSingle(liveEvents, liveEvents')) = << "FLIP" >>) =>
              LET e == NewSingle(liveEvents, liveEvents')
              IN  FlippedAt(positions'[m], snap.ts, e[1].sideA, e[1].sideB,
                            positions'[m].perpSide, positions'[m].spotSide)
        /\ (pc = "live"
            /\ Actions(NewCross(liveEvents, liveEvents')) = << "FLIP" >>) =>
              LET e == NewCross(liveEvents, liveEvents')
              IN  FlippedAt(crossPos'[m], snap.ts, e[1].sideA, e[1].sideB,
                            crossPos'[m].driftSide, crossPos'[m].venueBSide)]_vars

\* in log, every ENTER that follows an EXIT of the same market and kind, a
\* flip's own pair aside, is at least the cooldown after it
ReentryAfterCooldown(log) ==
    \A i, j \in DOMAIN log :
        (/\ i < j
         /\ log[i].market = log[j].market /\ log[i].type = log[j].type
         /\ log[i].action = "EXIT" /\ log[j].action = "ENTER"
         /\ ~FlipPair(log, i, j))
        => log[j].ts >= log[i].ts + COOLDOWN_SEC * 1000

\* the exits of one kind in a log, and the time of the latest one
ExitsOf(log, type) ==
    {i \in DOMAIN log : log[i].type = type /\ log[i].action = "EXIT"}

\* a closed position is still stored and carries the time of its last action
KeptClosed(p, log, type) ==
    (p.exists /\ ~p.open) =>
        \E i \in ExitsOf(log, type) :
            /\ p.lastActionAt = log[i].ts
            /\ \A k \in ExitsOf(log, type) : log[k].ts <= log[i].ts

\* C30: a closed position stays stored with its lastActionAt, and after an
\* EXIT at time t no ENTER of the same market and kind occurs at a step
\* before t + cooldownSeconds * 1000
C30_NoReentryInCooldown ==
    /\ ReentryAfterCooldown(tradeEvents)
    /\ ReentryAfterCooldown(liveEvents)
    /\ \A m \in Markets :
          /\ KeptClosed(singlePositions[m], tradeEvents, "SINGLE")
          /\ KeptClosed(crossPositions[m], tradeEvents, "CROSS")
          /\ KeptClosed(positions[m], liveEvents, "SINGLE")
          /\ KeptClosed(crossPos[m], liveEvents, "CROSS")
          /\ (ExitsOf(tradeEvents, "SINGLE") # {}) => singlePositions[m].exists
          /\ (ExitsOf(liveEvents, "SINGLE") # {}) => positions[m].exists

\* both drivers entered, closed and, the cooldown over, entered again
C30_Witness ==
    /\ pc = "feed"
    /\ Actions(tradeEvents) = << "ENTER", "EXIT", "ENTER" >>
    /\ Actions(liveEvents) = << "ENTER", "EXIT", "ENTER" >>
    /\ \A i \in 1..3 : tradeEvents[i].type = "SINGLE" /\ liveEvents[i].type = "SINGLE"
    /\ tradeEvents[3].ts >= tradeEvents[2].ts + COOLDOWN_SEC * 1000
    /\ liveEvents[3].ts >= liveEvents[2].ts + COOLDOWN_SEC * 1000
    /\ tradeEvents[2].ts > tradeEvents[1].ts

----------------------------------------------------------------------------
(* Properties of the live worker under rejected calls (SpecExec)           *)

Last(seq) == seq[Len(seq)]

\* the fields of a position that say what is believed to be held
SingleBelief(p) == <<p.exists, p.open, p.perpSide, p.spotSide, p.lastActionAt>>

CrossBelief(p) == <<p.exists, p.open, p.driftSide, p.venueBSide, p.lastActionAt>>

----------------------------------------------------------------------------
(* Side tracking of the single-venue position (Spec)                       *)

\* pos is open and out of cooldown at the time of the current snapshot
OpenNotCooling(pos) ==
    pos.exists /\ pos.open /\ ~inCooldown(pos.lastActionAt, COOLDOWN_SEC, snap.ts)

\* after the step the position is closed or holds the receiving side
ClosedOrReceiving(pos) ==
    ~pos.open \/ pos.perpSide = decideReceivePerpSide(snap.hourlyPct)

\* the close and flip conditions on the current snapshot for held side
CloseXorFlip(perpSide) ==
    LET absApr == Abs(snap.aprPct)
        signalFlipped == decideReceivePerpSide(snap.hourlyPct) # perpSide
    IN  /\ ~(shouldClose(absApr, signalFlipped) /\ shouldFlip(absApr, signalFlipped))
        /\ signalFlipped =>
               (shouldClose(absApr, signalFlipped) # shouldFlip(absApr, signalFlipped))

\* C37: after a step on which an open single-venue position is not cooling,
\* the position is closed or its perpSide is the receiving side of the
\* current hourly rate; the close and flip conditions are never both true
\* and exactly one is true when the desired side differs from the held one
C37_SideTracking ==
    [][\A m \in Markets :
          /\ (pc = "backtest" /\ pc' = "live"
                  /\ OpenNotCooling(singlePositions[m])) =>
                 /\ ClosedOrReceiving(singlePositions'[m])
                 /\ CloseXorFlip(singlePositions[m].perpSide)
          /\ (pc = "live" /\ pc' = "feed" /\ OpenNotCooling(positions[m])) =>
                 /\ ClosedOrReceiving(positions'[m])
                 /\ CloseXorFlip(positions[m].perpSide)]_vars

----------------------------------------------------------------------------
(* Shape of the backtest's trade log (Spec)                                *)

\* the events of market and kind in the log, in order
EventsOf(log, market, kind) ==
    SelectSeq(log, LAMBDA e : e.market = market /\ e.type = kind)

\* ENTER at the odd places, EXIT at the even ones
Alternates(seq) ==
    \A i \in DOMAIN seq :
        seq[i].action = IF i % 2 = 1 THEN "ENTER" ELSE "EXIT"

\* C38: in the trade log of a backtest run the events of each market and
\* kind alternate ENTER, EXIT, ENTER, ... starting with ENTER
C38_LogAlternates ==
    \A m \in Markets, kind \in {"SINGLE", "CROSS"} :
        Alternates(EventsOf(tradeEvents, m, kind))

\* a log in which a market's single-venue position was entered, exited and
\* entered again
C38_Witness ==
    \E m \in Markets : Len(EventsOf(tradeEvents, m, "SINGLE")) >= 3

----------------------------------------------------------------------------
(* Progress of the single-venue position (SpecProgress)                    *)

\* the cooldown of pos, counted from its last action, is over at the
\* current snapshot
CooldownOver(pos) ==
    ~pos.exists \/ snap.ts - pos.lastActionAt >= COOLDOWN_SEC * 1000

\* a snapshot has been read on which the closed position of m is due to be
\* entered: |apr| at or above enter, cooldown over
EntryDue(m) ==
    /\ pc = "backtest" /\ ~PERP_PERP
    /\ ~singlePositions[m].open
    /\ Abs(snap.aprPct) >= ENTER_APR
    /\ CooldownOver(singlePositions[m])

\* ... on which the open position of m is due to be exited
ExitDue(m) ==
    /\ pc = "backtest" /\ ~PERP_PERP
    /\ singlePositions[m].open
    /\ Abs(snap.aprPct) <= EXIT_APR
    /\ CooldownOver(singlePositions[m])

\* the step on the current snapshot has entered / exited the position
EnteredNow(m) ==
    /\ pc # "backtest"
    /\ singlePositions[m].open /\ singlePositions[m].openedAt = snap.ts

ExitedNow(m) ==
    /\ pc # "backtest"
    /\ ~singlePositions[m].open /\ singlePositions[m].lastActionAt = snap.ts

\* a step inside the cooldown leaves open and lastActionAt as they are, so
\* waiting never postpones the end of the cooldown
WaitingKeepsClock(m) ==
    (pc = "backtest" /\ ~PERP_PERP /\ ~CooldownOver(singlePositions[m])) =>
        /\ singlePositions'[m].open = singlePositions[m].open
        /\ singlePositions'[m].lastActionAt = singlePositions[m].lastActionAt

\* C39: with cross-venue mode off, a closed position that sees |apr| >=
\* enter is entered on the first such step at which the cooldown is over,
\* an open position that sees |apr| <= exit is exited on the first such
\* step at which the cooldown is over, and steps inside the cooldown do not
\* move its end
C39_Progress ==
    /\ \A m \in Markets : EntryDue(m) ~> EnteredNow(m)
    /\ \A m \in Markets : ExitDue(m) ~> ExitedNow(m)
    /\ [][\A m \in Markets :
             /\ EntryDue(m) => EnteredNow(m)'
             /\ ExitDue(m) => ExitedNow(m)'
             /\ WaitingKeepsClock(m)]_vars

\* a position that was exited, waited, and has been entered again on the
\* current snapshot
C39_Witness ==
    /\ ~PERP_PERP /\ pc = "live"
    /\ \E m \in Markets :
         /\ EnteredNow(m)
         /\ \E i \in DOMAIN tradeEvents :
              /\ tradeEvents[i].market = m
              /\ tradeEvents[i].action = "EXIT"
              /\ tradeEvents[i].ts < snap.ts

----------------------------------------------------------------------------
(* Properties of the service loop (SpecSvc)                                *)

\* C21: at most one tick is executing at any time, and a tick that becomes
\* due while another one is in flight is skipped: it starts no activation,
\* neither then nor later
C21_OneTickInFlight ==
    [][/\ Len(svc'.ticks) <= 1
       /\ (svc'.fires > svc.fires /\ svc.ticks # << >>) =>
              svc'.ticks = svc.ticks]_vars

\* C22: a failed fetch for one market skips that market only: every tick
\* that has returned went through every configured market, and after the
\* first cycle of begin() the interval is set, so later ticks follow
C22_FeedErrorIsolated ==
    \A k \in DOMAIN svc.log :
        /\ Len(svc.log[k].outcomes) = Len(MARKETS)
        /\ ~svc.log[k].threw
        /\ (svc.log[k].origin = "begin" /\ svc.stops = 0) =>
               svc.timer # NoTimer

\* C31: a market is opened only while it has no open position: the loop
\* never closes what it opened, so over the ticks of a service no market is
\* opened a second time
C31_EnterOnlyWhenClosed ==
    \A m \in DOMAIN svc.opens : svc.opens[m] <= 1

\* a call of begin() is suspended at the await of its first cycle
BeginInProgress == \E k \in DOMAIN svc.ticks : svc.ticks[k].origin = "begin"

\* the number of tick() activations started so far
TicksStarted(s) == Len(s.ticks) + Len(s.log)

\* C32: once stop() has returned and begin() has not been called since, no
\* interval remains scheduled and no further tick is started
C32_StopStopsLoop ==
    /\ [](svc.lastCall = "stop" => svc.intervals = {})
    /\ [][(svc.lastCall = "stop" /\ svc'.lastCall = "stop") =>
              TicksStarted(svc') = TicksStarted(svc)]_vars

\* C33: at most one interval is scheduled, the service holds the handle of
\* every scheduled interval, and status.running is true exactly when an
\* interval is scheduled or a begin() is in progress
C33_BeginIdempotent ==
    /\ Cardinality(svc.intervals) <= 1
    /\ svc.intervals \subseteq {svc.timer}
    /\ svc.running <=> (svc.intervals # {} \/ BeginInProgress)
----------------------------------------------------------------------------
(* Properties of the decision under epsilon noise (SpecNoise)              *)

\* the decision the live worker takes on a reading
LiveDecision(s) == crossDecision(s.hourlyPct, s.aprPct, s.bHourlyPct, s.bAprPct)

\* between readings p and c the sgn category of the hourly rate each driver
\* passes to crossDecision, and the order of |aprA| and |aprB|, are the same
SameOrder(p, c) ==
    (Abs(p.aprPct) >= Abs(p.bAprPct)) <=> (Abs(c.aprPct) >= Abs(c.bAprPct))

LiveNoiseOnly(p, c) ==
    /\ sgn(p.hourlyPct) = sgn(c.hourlyPct)
    /\ sgn(p.bHourlyPct) = sgn(c.bHourlyPct)
    /\ SameOrder(p, c)

BtNoiseOnly(p, c) ==
    /\ sgn(p.hourlyPct \div 100) = sgn(c.hourlyPct \div 100)
    /\ sgn(p.bHourlyPct \div 100) = sgn(c.bHourlyPct \div 100)
    /\ SameOrder(p, c)

SameSides(d, e) == d.driftSide = e.driftSide /\ d.venueBSide = e.venueBSide

\* C34: for an open cross position, when between the previous reading and
\* the current one only the raw sign of a rate inside the epsilon band
\* changes (categories and |apr| order unchanged), the decided sides are
\* those of the previous reading and flipNeeded is false
C34_EpsilonNoiseSuppressed ==
    \A m \in Markets :
        Len(hist) >= 2 =>
            LET p == hist[Len(hist) - 1]
            IN  /\ (pc = "noise-bt" /\ crossPositions[m].open
                        /\ BtNoiseOnly(p, snap)) =>
                       /\ SameSides(BtDecision(snap), BtDecision(p))
                       /\ SameSides(BtDecision(snap), crossPositions[m])
                /\ (pc = "noise-live" /\ crossPos[m].open
                        /\ LiveNoiseOnly(p, snap)) =>
                       /\ SameSides(LiveDecision(snap), LiveDecision(p))
                       /\ SameSides(LiveDecision(snap), crossPos[m])

----------------------------------------------------------------------------
(* Properties of the market list (SpecMarkets)                             *)

\* the primary snapshots of the markets of list, each market counted once
RECURSIVE SnapshotsOf(_, _)
SnapshotsOf(list, data) ==
    IF list = << >> THEN 0
    ELSE Len(data[Head(list)].drift) + SnapshotsOf(Tail(list), data)

\* the readings the finished pass of the live worker took for market m
ReadingsOf(m) == {k \in DOMAIN hist : hist[k].market = m}

\* C35: the configured markets form a set: a market listed more than once
\* is simulated once per backtest run (the run processes each primary
\* snapshot of each listed market once) and evaluated once per live tick
C35_MarketsFormSet ==
    /\ (boot.program = "backtest" /\ boot.state = "done") =>
           Len(runs[1].pnlSeries) =
               SnapshotsOf(Dedup(boot.env.markets), historyData)
    /\ (boot.program = "live" /\ boot.state = "done") =>
           \A k \in DOMAIN boot.env.markets :
               Cardinality(ReadingsOf(boot.env.markets[k])) = 1

----------------------------------------------------------------------------
(* Properties of paper mode (SpecPaper)                                    *)

\* C36: for every value of FRA_PAPER all components agree on whether paper
\* mode is in effect, an unset variable means paper mode, and while a
\* component reports paper mode no transaction has been signed and sent
C36_PaperConsistent ==
    /\ \A a \in DOMAIN boot.loaded, b \in DOMAIN boot.loaded :
           boot.loaded[a] = boot.loaded[b]
    /\ \A a \in DOMAIN boot.loaded : ~boot.env.paper.set => boot.loaded[a]
    /\ (\E a \in DOMAIN boot.loaded : boot.loaded[a]) => boot.sent = {}

----------------------------------------------------------------------------
(* Properties of the startup configuration (SpecBoot)                      *)

\* a value that is set and has a character that is no digit and no percent
\* sign
Malformed(e) == e.set /\ \E i \in DOMAIN e.text : e.text[i] \notin Digits \cup {"%"}

\* C24: a malformed enter threshold, exit threshold, cooldown or notional
\* makes the program fail at startup, and no step or tick is evaluated with
\* a non-finite threshold, cooldown or notional
C24_ConfigFailsFast ==
    /\ (boot.state # "start" /\ \E k \in DOMAIN boot.env : Malformed(boot.env[k]))
          => boot.state = "failed"
    /\ boot.evaluated =>
          \A k \in DOMAIN boot.loaded : boot.loaded[k].finite
====
